---- MODULE Spec2Model ----
(***************************************************************************)
(* Wallet bridge of swiss-knife-smart-wallet.                              *)
(*                                                                         *)
(* Two state machines are modelled:                                        *)
(*   - the session bridge of src/app/wallet/bridge/page.tsx (the React     *)
(*     state of WalletBridgePage and its handlers), under SpecBridge;      *)
(*   - the headless smart-wallet connector of src/unnamed/part_000 (the    *)
(*     closure variables `connected` and `walletClient` and the connector  *)
(*     methods), under SpecConnector.                                      *)
(*                                                                         *)
(* Every `await` of a handler is a suspension point: the code before it    *)
(* and the code after it are separate actions, and other handlers may run  *)
(* in between.  What a remote call answers (a wallet capability, a chain   *)
(* switch, the pairing layer) is chosen nondeterministically.              *)
(***************************************************************************)
EXTENDS Integers, Sequences, FiniteSets, TLC

(***************************************************************************)
(* Bounds of the model.                                                    *)
(***************************************************************************)
\* inbound session requests delivered by the pairing layer
MaxRequests == 1
\* invocations of handleSessionRequest
MaxCalls == 2
\* invocations of handleChainSwitch
MaxSwitches == 1
\* handleSessionRequest invocations that may be suspended at the same time
MaxFlows == 2
\* connector operations (connect / switchChain / getProvider) started
MaxTasks == 2
MaxRpcs == 2
MaxProposals == 2
MaxSessionCalls == 3

(***************************************************************************)
(* Program constants.                                                      *)
(***************************************************************************)
\* error code of a user rejection, page.tsx line 374
UserRejectedCode == 4001
UserRejectedMessage == "User rejected the request"

\* walletChains (the configured chain allow-list) and one chain outside it
walletChains == {8453, 1}
\* the chain wagmi starts on: the first configured chain
DefaultChain == 8453
DeclaredChains == walletChains \cup {10}
Topics == {"tA", "tB"}
\* the topic of the session that request i comes from
TopicOf(i) == IF i % 2 = 1 THEN "tA" ELSE "tB"

SendMethods == {"eth_sendTransaction"}
MessageSignMethods == {"personal_sign", "eth_sign"}
TypedDataMethods ==
    {"eth_signTypedData", "eth_signTypedData_v3", "eth_signTypedData_v4"}
Methods ==
    SendMethods \cup MessageSignMethods \cup TypedDataMethods \cup
    {"wallet_switchEthereumChain", "wallet_addEthereumChain",
     "eth_signTransaction", "eth_chainId"}

VARIABLES
    \* ---- page.tsx: WalletBridgePage
    walletKit,              \* useState walletKit: TRUE once initialised
    pageWalletClient,       \* useWalletClient().data is defined
    chainId,                \* useChainId()
    currentSessionRequest,  \* useState currentSessionRequest (NoRequest = null)
    isSessionRequestOpen,   \* useDisclosure of the request modal
    pendingRequest,
    isSwitchingChain,
    needsChainSwitch,
    targetChainId,          \* 0 = null
    flows,                  \* suspended handleSessionRequest invocations
    chainSwitch,            \* the suspended handleChainSwitch invocation
    timerArmed,             \* the setTimeout of handleSessionRequestClose
    log,                    \* calls made to the wallet / pairing layer, in order
    toasts,                 \* what the notifier (toast) was told
    arrived,                \* the inbound requests, by id
    invocations,            \* handleSessionRequest invocations so far
    switches,               \* handleChainSwitch invocations so far
    \* ---- part_000: headlessCSWConnector
    connected,
    walletClient,
    address,
    tasks,
    emitted,                \* the chain ids sent as "change" {chainId} notifications
    derivations,            \* calls of toCoinbaseSmartAccount so far
    lastCall,
    \* ---- part_000: the provider's request handler
    provider,               \* the chain and account one getProvider call closed over
    rpcs,                   \* the calls of provider.request, by number
    effects,                \* calls made to bundler, account and wallets, in order
    \* ---- page.tsx: session proposals and active sessions
    accountAddress,         \* useAccount().address is defined
    activeSessions,         \* useState activeSessions
    currentSessionProposal, \* useState currentSessionProposal (0 = null)
    isSessionProposalOpen,  \* useDisclosure of the proposal modal
    sessionCalls,           \* invocations of approve / reject / disconnect
    kitProposals,           \* pairing layer: the proposals awaiting a decision
    kitSessions,            \* pairing layer: the sessions it holds
    kitLog,                 \* calls made to the pairing layer, in order
    sessionToasts,          \* what the notifier was told by these handlers
    \* ---- page.tsx: the catch block of handleSessionRequest
    caught,                 \* the error value the catch block received
    errorMessage            \* let errorMessage, as the toast shows it

bridgeVars ==
    <<walletKit, pageWalletClient, chainId, currentSessionRequest,
      isSessionRequestOpen, pendingRequest, isSwitchingChain, needsChainSwitch,
      targetChainId, flows, chainSwitch, timerArmed, log, toasts, arrived,
      invocations, switches>>

connectorVars ==
    <<connected, walletClient, address, tasks, emitted, derivations, lastCall>>

requestVars == <<provider, rpcs, effects>>

sessionVars ==
    <<accountAddress, activeSessions, currentSessionProposal,
      isSessionProposalOpen, sessionCalls, kitProposals, kitSessions, kitLog,
      sessionToasts>>

errorVars == <<caught, errorMessage>>

vars == <<bridgeVars, connectorVars, requestVars, sessionVars, errorVars>>

(***************************************************************************)
(* Session requests.                                                       *)
(*   arg is the parameter the dispatcher reads (params[0], or params[1]    *)
(*   for typed data): "noparams" (request.params itself is undefined),     *)
(*   "missing" (the element is undefined), "object" (already structured),  *)
(*   "json" (a string JSON.parse accepts), "text" (a string it rejects).   *)
(*   switchTo is params[0].chainId of wallet_switchEthereumChain.          *)
(***************************************************************************)
NoRequest ==
    [id |-> 0, topic |-> "", chainId |-> 0, method |-> "", arg |-> "",
     switchTo |-> 0]

ArgsOf(m) ==
    IF m \in TypedDataMethods
    THEN {"noparams", "missing", "object", "json", "text"}
    ELSE IF m \in {"eth_signTransaction", "eth_chainId"} THEN {"object"}
    ELSE {"noparams", "missing", "object"}

SwitchTargetsOf(m, a) ==
    IF m = "wallet_switchEthereumChain" /\ a = "object" THEN DeclaredChains
    ELSE {0}

RequestsWithId(i) ==
    { [id |-> i, topic |-> t, chainId |-> c, method |-> m, arg |-> a,
       switchTo |-> s] :
        t \in {TopicOf(i)}, c \in DeclaredChains,
        m \in Methods, a \in {"noparams", "missing", "object", "json", "text"},
        s \in DeclaredChains \cup {0} }

ValidRequest(r) ==
    /\ r.arg \in ArgsOf(r.method)
    /\ r.switchTo \in SwitchTargetsOf(r.method, r.arg)

NoFlow == [pc |-> "idle", approve |-> FALSE, req |-> NoRequest, inv |-> 0,
           result |-> ""]

Flows == 1..MaxFlows

Ev(kind, inv, id, what, arg, chain, topic, code) ==
    [kind |-> kind, inv |-> inv, id |-> id, what |-> what, arg |-> arg,
     chain |-> chain, topic |-> topic, code |-> code]


(***************************************************************************)
(* page.tsx, pure parts.                                                   *)
(***************************************************************************)
\* Classify with the eth_sign alternative of the message-sign test left out
ClassifyWithoutEthSign(m) ==
    IF m = "eth_sendTransaction" THEN "transaction-send"
    ELSE IF m = "personal_sign" THEN "message-sign"
    ELSE IF m = "eth_signTypedData" \/ m = "eth_signTypedData_v3"
            \/ m = "eth_signTypedData_v4" THEN "typed-data-sign"
    ELSE IF m = "wallet_switchEthereumChain" THEN "chain-switch"
    ELSE IF m = "wallet_addEthereumChain" THEN "chain-add"
    ELSE "unrecognized"

\* the if-chain of handleSessionRequest
Classify(m) ==
    IF m = "eth_sendTransaction" THEN "transaction-send"
    ELSE IF m = "personal_sign" \/ m = "eth_sign" THEN "message-sign"
    ELSE IF m = "eth_signTypedData" \/ m = "eth_signTypedData_v3"
            \/ m = "eth_signTypedData_v4" THEN "typed-data-sign"
    ELSE IF m = "wallet_switchEthereumChain" THEN "chain-switch"
    ELSE IF m = "wallet_addEthereumChain" THEN "chain-add"
    ELSE "unrecognized"

\* try { typedData = JSON.parse(params[1]) } catch (e) {}: only a string that
\* parses is replaced by what it encodes; anything else is kept as it is
ParseTolerant(a) == IF a = "json" THEN "object" ELSE a

\* typedData.domain / types / primaryType / message as handed to signTypedData:
\* the fields of a structured value, undefined for a string
TypedDataFields(td) == IF td = "object" THEN "fields" ELSE "undefined"

\* requiresChainSwitch of the chain-switch effect
RequiresChainSwitch(r, cid) ==
    /\ cid # r.chainId
    /\ \/ r.method = "eth_sendTransaction"
       \/ r.method = "eth_signTransaction"
       \/ r.method = "eth_sign"
       \/ r.method = "personal_sign"
       \/ r.method = "eth_signTypedData"
       \/ r.method = "eth_signTypedData_v3"
       \/ r.method = "eth_signTypedData_v4"

\* the effect on [currentSessionRequest, chainId]: <<needsChainSwitch, targetChainId>>
ChainSwitchCheck(r, cid) ==
    IF r # NoRequest /\ cid # 0
    THEN <<RequiresChainSwitch(r, cid),
           IF RequiresChainSwitch(r, cid) THEN r.chainId ELSE 0>>
    ELSE <<FALSE, 0>>

\* the response object of the reject branch
RejectResponse(n, r) ==
    Ev("respond", n, r.id, "error", UserRejectedMessage, 0, r.topic,
       UserRejectedCode)

\* the response object of the approve branch
ResultResponse(n, r, result) ==
    Ev("respond", n, r.id, "result", result, 0, r.topic, 0)

\* the guard of handleSessionRequest
HandlerGuard == walletKit /\ currentSessionRequest # NoRequest /\ pageWalletClient

HasIdleFlow == \E f \in Flows : flows[f].pc = "idle"
IdleFlow == CHOOSE f \in Flows :
               flows[f].pc = "idle" /\ \A g \in Flows : g < f => flows[g].pc # "idle"

InvokeEv(n, approve, ran) ==
    Ev("invoke", n, currentSessionRequest.id,
       IF approve THEN "approve" ELSE "reject",
       IF ran THEN "run" ELSE "return", chainId, "", 0)

CaughtEv(n, r, approve, cause) ==
    Ev("caught", n, r.id, IF approve THEN "approve" ELSE "reject", cause, 0, "", 0)

(***************************************************************************)
(* page.tsx, state after construction.                                     *)
(***************************************************************************)
BridgeInit ==
    /\ walletKit = FALSE
    /\ pageWalletClient \in BOOLEAN
    /\ chainId = DefaultChain
    /\ currentSessionRequest = NoRequest
    /\ isSessionRequestOpen = FALSE
    /\ pendingRequest = FALSE
    /\ isSwitchingChain = FALSE
    /\ needsChainSwitch = FALSE
    /\ targetChainId = 0
    /\ flows = [f \in Flows |-> NoFlow]
    /\ chainSwitch = [pc |-> "idle", target |-> 0, id |-> 0]
    /\ timerArmed = FALSE
    /\ log = <<>>
    /\ toasts = {}
    /\ arrived = <<>>
    /\ invocations = 0
    /\ switches = 0

\* WalletKitInitializer hands the initialised pairing client to setWalletKit
WalletKitInit ==
    /\ ~walletKit
    /\ walletKit' = TRUE
    /\ UNCHANGED <<pageWalletClient, chainId, currentSessionRequest,
                   isSessionRequestOpen, pendingRequest, isSwitchingChain,
                   needsChainSwitch, targetChainId, flows, chainSwitch,
                   timerArmed, log, toasts, arrived, invocations, switches>>

\* useWalletClient(): the wallet client appears or goes away with the connection
WalletClientChange ==
    /\ pageWalletClient' = ~pageWalletClient
    /\ UNCHANGED <<walletKit, chainId, currentSessionRequest,
                   isSessionRequestOpen, pendingRequest, isSwitchingChain,
                   needsChainSwitch, targetChainId, flows, chainSwitch,
                   timerArmed, log, toasts, arrived, invocations, switches>>

\* WalletKitEventHandler on an inbound session_request: the request becomes
\* the current one and the modal opens; the chain-switch effect then runs
SessionRequestEvent ==
    /\ walletKit
    /\ Len(arrived) < MaxRequests
    /\ \E r \in RequestsWithId(Len(arrived) + 1) :
        /\ ValidRequest(r)
        /\ currentSessionRequest' = r
        /\ arrived' = Append(arrived, r)
        /\ needsChainSwitch' = ChainSwitchCheck(r, chainId)[1]
        /\ targetChainId' = ChainSwitchCheck(r, chainId)[2]
    /\ isSessionRequestOpen' = TRUE
    /\ UNCHANGED <<walletKit, pageWalletClient, chainId, pendingRequest,
                   isSwitchingChain, flows, chainSwitch, timerArmed, log,
                   toasts, invocations, switches>>


(***************************************************************************)
(* handleSessionRequest.  The catch block resets the four flags and tells  *)
(* the notifier; it sends nothing to the pairing layer.                    *)
(***************************************************************************)
ErrorToast(r, approve) ==
    [title |-> IF approve THEN "Error: Failed to approve request"
               ELSE "Error: Failed to reject request",
     id |-> r.id]

\* catch (error) { ... } reached from invocation n of request r
HandlerCatch(n, r, approve, cause, before) ==
    /\ log' = log \o before \o <<CaughtEv(n, r, approve, cause)>>
    /\ pendingRequest' = FALSE
    /\ isSwitchingChain' = FALSE
    /\ needsChainSwitch' = FALSE
    /\ targetChainId' = 0
    /\ toasts' = toasts \cup {ErrorToast(r, approve)}

\* handleSessionRequest(approve) returns at its first line
HandlerReturnsEarly(approve) ==
    /\ ~HandlerGuard
    /\ invocations < MaxCalls
    /\ invocations' = invocations + 1
    /\ log' = log \o <<InvokeEv(invocations + 1, approve, FALSE)>>

\* the wallet capability the approve branch calls for request r, as
\* <<capability, what it is handed>>; <<"", "">> when the branch calls none
CapabilityOf(r) ==
    IF Classify(r.method) = "transaction-send" THEN <<"sendTransaction", "tx">>
    ELSE IF Classify(r.method) = "message-sign" THEN <<"signMessage", r.arg>>
    ELSE IF Classify(r.method) = "typed-data-sign"
         THEN <<"signTypedData", TypedDataFields(ParseTolerant(r.arg))>>
    ELSE <<"", "">>

\* reading the parameter throws a TypeError: request.params[i] when params is
\* undefined, or txParams.to / typedData.domain / params[0].chainId /
\* chainParams.chainName when the element is undefined
BranchThrows(r) ==
    \/ /\ Classify(r.method) # "unrecognized"
       /\ r.arg = "noparams"
    \/ /\ Classify(r.method) \in
              {"transaction-send", "typed-data-sign", "chain-switch", "chain-add"}
       /\ ParseTolerant(r.arg) = "missing"

\* onApprove: handleSessionRequest(true), up to its first await
ApproveRequest ==
    /\ isSessionRequestOpen
    /\ invocations < MaxCalls
    /\ \/ /\ HandlerReturnsEarly(TRUE)
          /\ UNCHANGED <<flows, pendingRequest, isSwitchingChain,
                         needsChainSwitch, targetChainId, toasts>>
       \/ /\ HandlerGuard
          /\ HasIdleFlow
          /\ invocations' = invocations + 1
          /\ LET r == currentSessionRequest
                 n == invocations + 1
                 f == IdleFlow
                 inv == InvokeEv(n, TRUE, TRUE)
                 class == Classify(r.method)
                 run(pc, result) ==
                     [flows EXCEPT ![f] =
                         [pc |-> pc, approve |-> TRUE, req |-> r, inv |-> n,
                          result |-> result]]
             IN
             IF BranchThrows(r)
             THEN /\ HandlerCatch(n, r, TRUE, "params", <<inv>>)
                  /\ UNCHANGED flows
             ELSE IF class \in {"transaction-send", "message-sign", "typed-data-sign"}
             THEN /\ log' = log \o
                       <<inv, Ev("wallet", n, r.id, CapabilityOf(r)[1],
                                 CapabilityOf(r)[2], chainId, "", 0)>>
                  /\ flows' = run("capability", "")
                  /\ pendingRequest' = TRUE
                  /\ UNCHANGED <<isSwitchingChain, needsChainSwitch,
                                 targetChainId, toasts>>
             ELSE IF class = "chain-switch"
             THEN /\ log' = log \o
                       <<inv, Ev("switch", n, r.id, "call", "", r.switchTo, "", 0)>>
                  /\ flows' = run("switch", "")
                  /\ pendingRequest' = TRUE
                  /\ isSwitchingChain' = TRUE
                  /\ UNCHANGED <<needsChainSwitch, targetChainId, toasts>>
             ELSE IF class = "chain-add"
             THEN /\ log' = log \o <<inv, ResultResponse(n, r, "null")>>
                  /\ flows' = run("respond", "null")
                  /\ pendingRequest' = TRUE
                  /\ toasts' = toasts \cup
                                 {[title |-> "Add Chain Request", id |-> r.id]}
                  /\ UNCHANGED <<isSwitchingChain, needsChainSwitch, targetChainId>>
             ELSE /\ log' = log \o <<inv, ResultResponse(n, r, "0x")>>
                  /\ flows' = run("respond", "0x")
                  /\ pendingRequest' = TRUE
                  /\ UNCHANGED <<isSwitchingChain, needsChainSwitch,
                                 targetChainId, toasts>>
    /\ UNCHANGED <<walletKit, pageWalletClient, chainId, currentSessionRequest,
                   isSessionRequestOpen, chainSwitch, timerArmed, arrived,
                   switches>>

\* handleSessionRequest(false), up to its await: what it changes of
\* flows, log and invocations
RejectStart ==
    /\ invocations < MaxCalls
    /\ \/ /\ HandlerReturnsEarly(FALSE)
          /\ UNCHANGED flows
       \/ /\ HandlerGuard
          /\ HasIdleFlow
          /\ invocations' = invocations + 1
          /\ LET r == currentSessionRequest
                 n == invocations + 1
             IN /\ log' = log \o <<InvokeEv(n, FALSE, TRUE), RejectResponse(n, r)>>
                /\ flows' = [flows EXCEPT ![IdleFlow] =
                               [pc |-> "respond", approve |-> FALSE, req |-> r,
                                inv |-> n, result |-> ""]]

\* onReject: handleSessionRequest(false)
RejectRequest ==
    /\ isSessionRequestOpen
    /\ RejectStart
    /\ UNCHANGED <<walletKit, pageWalletClient, chainId, currentSessionRequest,
                   isSessionRequestOpen, pendingRequest, isSwitchingChain,
                   needsChainSwitch, targetChainId, chainSwitch, timerArmed,
                   toasts, arrived, switches>>

\* await walletClient.sendTransaction / signMessage / signTypedData settles
CapabilitySettle(f) ==
    /\ flows[f].pc = "capability"
    /\ LET r == flows[f].req
           n == flows[f].inv
           result == IF Classify(r.method) = "transaction-send" THEN "hash"
                     ELSE "signature"
       IN \/ /\ log' = log \o <<ResultResponse(n, r, result)>>
             /\ flows' = [flows EXCEPT ![f].pc = "respond", ![f].result = result]
             /\ UNCHANGED <<pendingRequest, isSwitchingChain, needsChainSwitch,
                            targetChainId, toasts>>
          \/ /\ HandlerCatch(n, r, TRUE, "capability", <<>>)
             /\ flows' = [flows EXCEPT ![f] = NoFlow]
    /\ UNCHANGED <<walletKit, pageWalletClient, chainId, currentSessionRequest,
                   isSessionRequestOpen, chainSwitch, timerArmed, arrived,
                   invocations, switches>>

\* await switchChainAsync({chainId: requestedChainId}) settles
\* (wallet_switchEthereumChain); a new active chain re-runs the effect
SwitchSettle(f) ==
    /\ flows[f].pc = "switch"
    /\ LET r == flows[f].req
           n == flows[f].inv
       IN \/ /\ r.switchTo \in walletChains
             /\ chainId' = r.switchTo
             /\ isSwitchingChain' = FALSE
             /\ log' = log \o <<Ev("switch", n, r.id, "ok", "", r.switchTo, "", 0),
                                ResultResponse(n, r, "null")>>
             /\ flows' = [flows EXCEPT ![f].pc = "respond", ![f].result = "null"]
             /\ IF r.switchTo # chainId
                THEN /\ needsChainSwitch' =
                            ChainSwitchCheck(currentSessionRequest, r.switchTo)[1]
                     /\ targetChainId' =
                            ChainSwitchCheck(currentSessionRequest, r.switchTo)[2]
                ELSE UNCHANGED <<needsChainSwitch, targetChainId>>
             /\ UNCHANGED <<pendingRequest, toasts>>
          \/ /\ HandlerCatch(n, r, TRUE, "switch",
                             <<Ev("switch", n, r.id, "fail", "", r.switchTo, "", 0)>>)
             /\ flows' = [flows EXCEPT ![f] = NoFlow]
             /\ UNCHANGED chainId
    /\ UNCHANGED <<walletKit, pageWalletClient, currentSessionRequest,
                   isSessionRequestOpen, chainSwitch, timerArmed, arrived,
                   invocations, switches>>

\* await walletKit.respondSessionRequest(...) settles
RespondSettle(f) ==
    /\ flows[f].pc = "respond"
    /\ LET r == flows[f].req
           n == flows[f].inv
           approve == flows[f].approve
       IN \/ /\ approve
             /\ pendingRequest' = FALSE
             /\ needsChainSwitch' = FALSE
             /\ targetChainId' = 0
             /\ toasts' = toasts \cup {[title |-> "Request approved", id |-> r.id]}
             /\ isSessionRequestOpen' = FALSE
             /\ UNCHANGED <<log, isSwitchingChain>>
          \/ /\ ~approve
             /\ toasts' = toasts \cup {[title |-> "Request rejected", id |-> r.id]}
             /\ isSessionRequestOpen' = FALSE
             /\ UNCHANGED <<log, pendingRequest, isSwitchingChain,
                            needsChainSwitch, targetChainId>>
          \/ /\ HandlerCatch(n, r, approve, "delivery", <<>>)
             /\ UNCHANGED isSessionRequestOpen
    /\ flows' = [flows EXCEPT ![f] = NoFlow]
    /\ UNCHANGED <<walletKit, pageWalletClient, chainId, currentSessionRequest,
                   chainSwitch, timerArmed, arrived, invocations, switches>>


(***************************************************************************)
(* handleChainSwitch (the modal's onChainSwitch).                          *)
(***************************************************************************)
HandleChainSwitch ==
    /\ isSessionRequestOpen
    /\ targetChainId # 0
    /\ chainSwitch.pc = "idle"
    /\ switches < MaxSwitches
    /\ switches' = switches + 1
    /\ isSwitchingChain' = TRUE
    /\ chainSwitch' = [pc |-> "await", target |-> targetChainId,
                       id |-> currentSessionRequest.id]
    /\ log' = log \o <<Ev("switch", 0, currentSessionRequest.id, "call", "",
                          targetChainId, "", 0)>>
    /\ UNCHANGED <<walletKit, pageWalletClient, chainId, currentSessionRequest,
                   isSessionRequestOpen, pendingRequest, needsChainSwitch,
                   targetChainId, flows, timerArmed, toasts, arrived,
                   invocations>>

\* await switchChainAsync({chainId: targetChainId}) settles
ChainSwitchSettle ==
    /\ chainSwitch.pc = "await"
    /\ chainSwitch' = [pc |-> "idle", target |-> 0, id |-> 0]
    /\ isSwitchingChain' = FALSE
    /\ \/ /\ chainSwitch.target \in walletChains
          /\ chainId' = chainSwitch.target
          /\ log' = log \o <<Ev("switch", 0, chainSwitch.id, "ok", "",
                                chainSwitch.target, "", 0)>>
          /\ IF chainSwitch.target # chainId
             THEN /\ needsChainSwitch' =
                       ChainSwitchCheck(currentSessionRequest, chainSwitch.target)[1]
                  /\ targetChainId' =
                       ChainSwitchCheck(currentSessionRequest, chainSwitch.target)[2]
             ELSE /\ needsChainSwitch' = FALSE
                  /\ UNCHANGED targetChainId
          /\ UNCHANGED toasts
       \/ /\ log' = log \o <<Ev("switch", 0, chainSwitch.id, "fail", "",
                                chainSwitch.target, "", 0)>>
          /\ toasts' = toasts \cup
                         {[title |-> "Chain Switch Failed", id |-> chainSwitch.id]}
          /\ UNCHANGED <<chainId, needsChainSwitch, targetChainId>>
    /\ UNCHANGED <<walletKit, pageWalletClient, currentSessionRequest,
                   isSessionRequestOpen, pendingRequest, flows, timerArmed,
                   arrived, invocations, switches>>

(***************************************************************************)
(* handleSessionRequestClose (the modal's onClose).                        *)
(***************************************************************************)
HandleSessionRequestClose ==
    /\ isSessionRequestOpen
    /\ IF currentSessionRequest # NoRequest /\ walletKit
          /\ ~pendingRequest /\ ~isSwitchingChain
       THEN /\ RejectStart
            /\ UNCHANGED <<currentSessionRequest, isSessionRequestOpen,
                           needsChainSwitch, targetChainId, toasts, timerArmed>>
       ELSE /\ isSessionRequestOpen' = FALSE
            /\ currentSessionRequest' = NoRequest
            /\ needsChainSwitch' = FALSE
            /\ targetChainId' = 0
            /\ IF pendingRequest \/ isSwitchingChain
               THEN /\ RejectStart
                    /\ toasts' = toasts \cup
                         {[title |-> "Request in progress",
                           id |-> currentSessionRequest.id]}
                    /\ timerArmed' = TRUE
               ELSE UNCHANGED <<flows, log, invocations, toasts, timerArmed>>
    /\ UNCHANGED <<walletKit, pageWalletClient, chainId, pendingRequest,
                   isSwitchingChain, chainSwitch, arrived, switches>>

\* the setTimeout(..., 500) callback of handleSessionRequestClose
TimerReset ==
    /\ timerArmed
    /\ timerArmed' = FALSE
    /\ pendingRequest' = FALSE
    /\ isSwitchingChain' = FALSE
    /\ needsChainSwitch' = FALSE
    /\ targetChainId' = 0
    /\ UNCHANGED <<walletKit, pageWalletClient, chainId, currentSessionRequest,
                   isSessionRequestOpen, flows, chainSwitch, log, toasts,
                   arrived, invocations, switches>>

BridgeNext ==
    \/ WalletKitInit /\ UNCHANGED <<connectorVars, requestVars, sessionVars, errorVars>>
    \/ WalletClientChange /\ UNCHANGED <<connectorVars, requestVars, sessionVars, errorVars>>
    \/ SessionRequestEvent /\ UNCHANGED <<connectorVars, requestVars, sessionVars, errorVars>>
    \/ ApproveRequest /\ UNCHANGED <<connectorVars, requestVars, sessionVars, errorVars>>
    \/ RejectRequest /\ UNCHANGED <<connectorVars, requestVars, sessionVars, errorVars>>
    \/ \E f \in Flows : CapabilitySettle(f) /\ UNCHANGED <<connectorVars, requestVars, sessionVars, errorVars>>
    \/ \E f \in Flows : SwitchSettle(f) /\ UNCHANGED <<connectorVars, requestVars, sessionVars, errorVars>>
    \/ \E f \in Flows : RespondSettle(f) /\ UNCHANGED <<connectorVars, requestVars, sessionVars, errorVars>>
    \/ HandleChainSwitch /\ UNCHANGED <<connectorVars, requestVars, sessionVars, errorVars>>
    \/ ChainSwitchSettle /\ UNCHANGED <<connectorVars, requestVars, sessionVars, errorVars>>
    \/ HandleSessionRequestClose /\ UNCHANGED <<connectorVars, requestVars, sessionVars, errorVars>>
    \/ TimerReset /\ UNCHANGED <<connectorVars, requestVars, sessionVars, errorVars>>

(***************************************************************************)
(* part_000: headlessCSWConnector.                                         *)
(*                                                                         *)
(* connected and walletClient are the closure variables of the connector.  *)
(* A task is one call of connect, switchChain or getProvider; each await   *)
(* inside it is a suspension point, so tasks interleave.                   *)
(***************************************************************************)
\* config.chains, in order; config.chains[0] is the default chain
configChains == <<8453, 1>>
ConfiguredIds == { configChains[i] : i \in DOMAIN configChains }
\* the chainId argument of a call: 0 is "not given" (undefined)
ChainArgs == ConfiguredIds \cup {0, 10}
\* the address the connector is constructed with ("" is falsy)
Addresses == {"0xA", ""}

\* walletClient before its first assignment
NoClient == [chain |-> 0, address |-> ""]

\* { accounts: [], chainId: 0 }
EmptyResult == [accounts |-> <<>>, chainId |-> 0]

\* walletClient.account?.address ? [walletClient.account.address] : []
AccountsOf(wc) == IF wc.address # "" THEN <<wc.address>> ELSE <<>>

\* config.chains.find((x) => x.id === chainId) ?? config.chains[0]; 0 = undefined
ProviderChain(c) ==
    IF c \in ConfiguredIds THEN c
    ELSE IF Len(configChains) > 0 THEN configChains[1]
    ELSE 0

\* config.chains.find((x) => x.id === chainId); 0 = undefined
FindChain(c) == IF c \in ConfiguredIds THEN c ELSE 0

Call(op, outcome, error, accounts, cid, flag) ==
    [op |-> op, outcome |-> outcome, error |-> error, accounts |-> accounts,
     chainId |-> cid, flag |-> flag]

NoCall == Call("", "", "", <<>>, 0, FALSE)

\* getAccounts() without its `if (!connected) throw`
GetAccountsUnguarded ==
    IF walletClient = NoClient
    THEN Call("getAccounts", "raised", "TypeError", <<>>, 0, FALSE)
    ELSE Call("getAccounts", "returned", "", AccountsOf(walletClient), 0, FALSE)

\* what getAccounts() does in the current state
GetAccountsOutcome ==
    IF ~connected THEN Call("getAccounts", "raised", "Not connected", <<>>, 0, FALSE)
    ELSE IF walletClient = NoClient
         THEN Call("getAccounts", "raised", "TypeError", <<>>, 0, FALSE)
    ELSE Call("getAccounts", "returned", "", AccountsOf(walletClient), 0, FALSE)

\* what getChainId() does in the current state
GetChainIdOutcome ==
    IF walletClient = NoClient
    THEN Call("getChainId", "raised", "TypeError", <<>>, 0, FALSE)
    ELSE IF walletClient.chain = 0
         THEN Call("getChainId", "raised", "Not connected", <<>>, 0, FALSE)
    ELSE Call("getChainId", "returned", "", <<>>, walletClient.chain, FALSE)

\* what isAuthorized() does in the current state
IsAuthorizedOutcome ==
    IF ~connected THEN Call("isAuthorized", "returned", "", <<>>, 0, FALSE)
    ELSE IF GetAccountsOutcome.outcome = "raised"
         THEN Call("isAuthorized", "raised", GetAccountsOutcome.error, <<>>, 0, FALSE)
    ELSE Call("isAuthorized", "returned", "", <<>>, 0,
              Len(GetAccountsOutcome.accounts) # 0)

ConnectorInit ==
    /\ connected = TRUE
    /\ walletClient = NoClient
    /\ address \in Addresses
    /\ tasks = <<>>
    /\ emitted = <<>>
    /\ derivations = 0
    /\ lastCall = NoCall

Tasks == DOMAIN tasks

NewTask(op, c) ==
    [op |-> op, pc |-> "derive", inSwitch |-> (op = "switchChain"),
     chainId |-> c, chain |-> ProviderChain(c), currentChainId |-> 0,
     outcome |-> "", error |-> "", threw |-> FALSE, result |-> EmptyResult]

\* the task ends by returning `result` to its caller
Returns(t, result) ==
    tasks' = [tasks EXCEPT ![t].pc = "done", ![t].outcome = "returned",
                           ![t].result = result]

\* the task ends by raising to its caller
Raises(t, error) ==
    tasks' = [tasks EXCEPT ![t].pc = "done", ![t].outcome = "raised",
                           ![t].error = error]

\* connect's catch block without its `connected = false`
ConnectCatchKeepsConnected(t) ==
    /\ UNCHANGED connected
    /\ tasks' = [tasks EXCEPT ![t].pc = "done", ![t].outcome = "returned",
                              ![t].threw = TRUE, ![t].result = EmptyResult]

\* connect's catch block
ConnectCatch(t) ==
    /\ connected' = FALSE
    /\ tasks' = [tasks EXCEPT ![t].pc = "done", ![t].outcome = "returned",
                              ![t].threw = TRUE, ![t].result = EmptyResult]

\* a failure inside task t: caught by connect, raised by the other operations
Fails(t, error) ==
    IF tasks[t].op = "connect" THEN ConnectCatch(t)
    ELSE Raises(t, error) /\ UNCHANGED connected

\* connect's success path: connected = true; return { accounts, chainId }
ConnectSucceeds(t, cid) ==
    /\ connected' = TRUE
    /\ Returns(t, [accounts |-> AccountsOf(walletClient), chainId |-> cid])

\* a call of connect({chainId}), switchChain({chainId}) or getProvider({chainId}),
\* up to the await of toCoinbaseSmartAccount inside getProvider
StartTask(op, c) ==
    /\ Len(tasks) < MaxTasks
    /\ IF ProviderChain(c) = 0
       THEN /\ tasks' = Append(tasks,
                   [NewTask(op, c) EXCEPT
                      !.pc = "done",
                      !.outcome = IF op = "connect" THEN "returned" ELSE "raised",
                      !.error = IF op = "connect" THEN "" ELSE "ChainNotConfigured",
                      !.threw = TRUE])
            /\ connected' = IF op = "connect" THEN FALSE ELSE connected
            /\ UNCHANGED derivations
       ELSE /\ tasks' = Append(tasks, NewTask(op, c))
            /\ derivations' = derivations + 1
            /\ UNCHANGED connected
    /\ lastCall' = NoCall
    /\ UNCHANGED <<walletClient, address, emitted>>

Connect == \E c \in ChainArgs : StartTask("connect", c)
SwitchChain == \E c \in ChainArgs \ {0} : StartTask("switchChain", c)
GetProvider == \E c \in ChainArgs : StartTask("getProvider", c)

\* await toCoinbaseSmartAccount(...) settles; on success getProvider assigns
\* walletClient and returns the provider
DeriveSettle(t) ==
    /\ tasks[t].pc = "derive"
    /\ \/ /\ walletClient' = [chain |-> tasks[t].chain, address |-> address]
          /\ IF tasks[t].inSwitch
             THEN tasks' = [tasks EXCEPT ![t].pc = "switchFind"]
             ELSE IF tasks[t].op = "connect"
             THEN tasks' = [tasks EXCEPT ![t].pc = "getChainId"]
             ELSE Returns(t, EmptyResult)
          /\ UNCHANGED connected
       \/ /\ Fails(t, "DerivationFailed")
          /\ UNCHANGED walletClient
    /\ lastCall' = NoCall
    /\ UNCHANGED <<address, emitted, derivations>>

\* connect: let currentChainId = await this.getChainId()
ConnectGetChainId(t) ==
    /\ tasks[t].pc = "getChainId"
    /\ IF GetChainIdOutcome.outcome = "raised"
       THEN ConnectCatch(t)
       ELSE /\ tasks' = [tasks EXCEPT ![t].pc = "compare",
                                      ![t].currentChainId = GetChainIdOutcome.chainId]
            /\ UNCHANGED connected
    /\ lastCall' = NoCall
    /\ UNCHANGED <<walletClient, address, emitted, derivations>>

\* connect: if (chainId && currentChainId !== chainId) switchChain(...) else succeed
ConnectCompare(t) ==
    /\ tasks[t].pc = "compare"
    /\ IF tasks[t].chainId # 0 /\ tasks[t].currentChainId # tasks[t].chainId
       THEN IF ProviderChain(tasks[t].chainId) = 0
            THEN ConnectCatch(t) /\ UNCHANGED derivations
            ELSE /\ tasks' = [tasks EXCEPT ![t].pc = "derive", ![t].inSwitch = TRUE,
                                ![t].chain = ProviderChain(tasks[t].chainId)]
                 /\ derivations' = derivations + 1
                 /\ UNCHANGED connected
       ELSE /\ ConnectSucceeds(t, tasks[t].currentChainId)
            /\ UNCHANGED derivations
    /\ lastCall' = NoCall
    /\ UNCHANGED <<walletClient, address, emitted>>

\* switchChain after its getProvider: find the chain, throw or notify and return
SwitchFind(t) ==
    /\ tasks[t].pc = "switchFind"
    /\ IF FindChain(tasks[t].chainId) = 0
       THEN /\ Fails(t, "ChainNotConfigured")
            /\ UNCHANGED emitted
       ELSE /\ emitted' = Append(emitted, tasks[t].chainId)
            /\ IF tasks[t].op = "connect"
               THEN tasks' = [tasks EXCEPT ![t].pc = "afterSwitch"]
               ELSE Returns(t, [accounts |-> <<>>,
                                chainId |-> FindChain(tasks[t].chainId)])
            /\ UNCHANGED connected
    /\ lastCall' = NoCall
    /\ UNCHANGED <<walletClient, address, derivations>>

\* connect: currentChainId = chain.id; then the success path
ConnectAfterSwitch(t) ==
    /\ tasks[t].pc = "afterSwitch"
    /\ ConnectSucceeds(t, FindChain(tasks[t].chainId))
    /\ lastCall' = NoCall
    /\ UNCHANGED <<walletClient, address, emitted, derivations>>

\* disconnect()
Disconnect ==
    /\ connected' = FALSE
    /\ lastCall' = Call("disconnect", "returned", "", <<>>, 0, FALSE)
    /\ UNCHANGED <<walletClient, address, tasks, emitted, derivations>>

\* onDisconnect(): emit "disconnect", connected = false
OnDisconnect(op) ==
    /\ connected' = FALSE
    /\ lastCall' = Call(op, "returned", "disconnect emitted", <<>>, 0, FALSE)
    /\ UNCHANGED <<walletClient, address, tasks, emitted, derivations>>

\* onAccountsChanged(accounts)
OnAccountsChanged ==
    \E accounts \in {<<>>, <<"0xB">>} :
        IF Len(accounts) = 0
        THEN OnDisconnect("onAccountsChanged")
        ELSE /\ lastCall' = Call("onAccountsChanged", "returned", "change emitted",
                                  accounts, 0, FALSE)
             /\ UNCHANGED <<connected, walletClient, address, tasks, emitted,
                            derivations>>

\* getAccounts(), getChainId(), isAuthorized(): they change nothing
GetAccounts ==
    /\ lastCall' = GetAccountsOutcome
    /\ UNCHANGED <<connected, walletClient, address, tasks, emitted, derivations>>

GetChainId ==
    /\ lastCall' = GetChainIdOutcome
    /\ UNCHANGED <<connected, walletClient, address, tasks, emitted, derivations>>

IsAuthorized ==
    /\ lastCall' = IsAuthorizedOutcome
    /\ UNCHANGED <<connected, walletClient, address, tasks, emitted, derivations>>

ConnectorNext ==
    \/ Connect /\ UNCHANGED <<bridgeVars, requestVars, sessionVars, errorVars>>
    \/ SwitchChain /\ UNCHANGED <<bridgeVars, requestVars, sessionVars, errorVars>>
    \/ GetProvider /\ UNCHANGED <<bridgeVars, requestVars, sessionVars, errorVars>>
    \/ \E t \in Tasks : DeriveSettle(t) /\ UNCHANGED <<bridgeVars, requestVars, sessionVars, errorVars>>
    \/ \E t \in Tasks : ConnectGetChainId(t) /\ UNCHANGED <<bridgeVars, requestVars, sessionVars, errorVars>>
    \/ \E t \in Tasks : ConnectCompare(t) /\ UNCHANGED <<bridgeVars, requestVars, sessionVars, errorVars>>
    \/ \E t \in Tasks : SwitchFind(t) /\ UNCHANGED <<bridgeVars, requestVars, sessionVars, errorVars>>
    \/ \E t \in Tasks : ConnectAfterSwitch(t) /\ UNCHANGED <<bridgeVars, requestVars, sessionVars, errorVars>>
    \/ Disconnect /\ UNCHANGED <<bridgeVars, requestVars, sessionVars, errorVars>>
    \/ OnDisconnect("onDisconnect") /\ UNCHANGED <<bridgeVars, requestVars, sessionVars, errorVars>>
    \/ OnAccountsChanged /\ UNCHANGED <<bridgeVars, requestVars, sessionVars, errorVars>>
    \/ GetAccounts /\ UNCHANGED <<bridgeVars, requestVars, sessionVars, errorVars>>
    \/ GetChainId /\ UNCHANGED <<bridgeVars, requestVars, sessionVars, errorVars>>
    \/ IsAuthorized /\ UNCHANGED <<bridgeVars, requestVars, sessionVars, errorVars>>

(***************************************************************************)
(* part_000: the request handler of the provider getProvider returns.      *)
(*                                                                         *)
(* account, publicClient, bundlerClient and ownerWalletClient are locals   *)
(* of the getProvider call that built the provider; walletClient is the    *)
(* connector's closure variable, read when the handler runs.               *)
(* part_001 is the same connector with another request handler; a provider *)
(* carries the unit whose getProvider built it.                            *)
(***************************************************************************)
Units == {"part_000", "part_001"}

\* the branch the handler of a unit takes for a method
Route(unit, m) ==
    IF m = "eth_sendTransaction"
    THEN IF unit = "part_000" THEN "userOperation" ELSE "sendTransaction"
    ELSE IF m = "eth_signTypedData_v4" /\ unit = "part_000" THEN "typedData"
    ELSE "passthrough"

RpcMethods ==
    {"eth_sendTransaction", "eth_signTypedData_v4", "personal_sign", "eth_chainId"}

\* tx = args[0].params[0]: its to, data and value ("undefined" when absent)
NoTx == [to |-> "", data |-> "", value |-> ""]
Intents == [to : {"0xT"}, data : {"0xd", "undefined"}, value : {"1", "undefined"}]

\* what the parameter is, as for session requests
RpcArgsOf(m) ==
    IF m = "eth_sendTransaction" THEN {"noparams", "missing", "object"}
    ELSE IF m = "eth_signTypedData_v4"
         THEN {"noparams", "missing", "object", "json", "text"}
    ELSE {"noparams", "object"}

RpcTxOf(m, a) ==
    IF m = "eth_sendTransaction" /\ a = "object" THEN Intents ELSE {NoTx}

NoOp == [id |-> 0, calls |-> <<>>, initCode |-> "", signature |-> 0]

\* the calls of the user operation, with to, data and value swapped round
UserOpCallsShuffled(tx, from) ==
    <<[to |-> tx.to, from |-> from, data |-> tx.value, value |-> tx.data]>>

\* calls: [{ to: tx.to, from: getAddress(account.address), data: tx.data,
\*           value: tx.value }]
UserOpCalls(tx, from) ==
    <<[to |-> tx.to, from |-> from, data |-> tx.data, value |-> tx.value]>>

\* the user operation call i prepares
PreparedOp(i, tx, from) ==
    [id |-> i, calls |-> UserOpCalls(tx, from), initCode |-> "0x", signature |-> 0]

\* [{ ...userOp, initCode: "0x", signature: userOpSignature }]
SubmittedOp(userOp, signature) ==
    [userOp EXCEPT !.initCode = "0x", !.signature = signature]

\* { ...typedData }: the own enumerable properties of the value; a string
\* spreads into its characters by index, undefined into nothing
Spread(td) ==
    IF td = "object" THEN "object"
    ELSE IF td = "missing" THEN "empty"
    ELSE "characters"

\* ownerAccount.address, of privateKeyToAccount(ownerPrivateKey)
OwnerAddress == "0xOwner"

NoContractCall ==
    [client |-> "", address |-> "", functionName |-> "", batch |-> <<>>,
     beneficiary |-> ""]

\* the submission made by the smart account's client, paying the account
WriteContractByAccount(op) ==
    [client |-> "walletClient", address |-> "entryPoint06Address",
     functionName |-> "handleOps", batch |-> <<op>>, beneficiary |-> "0xA"]

\* ownerWalletClient.writeContract({ abi: entryPoint06Abi,
\*   address: entryPoint06Address, functionName: "handleOps",
\*   args: [[op], ownerAccount.address] })
WriteContract(op) ==
    [client |-> "ownerWalletClient", address |-> "entryPoint06Address",
     functionName |-> "handleOps", batch |-> <<op>>, beneficiary |-> OwnerAddress]

Effect(i, what, op, method, arg, chain) ==
    [rpc |-> i, what |-> what, op |-> op, method |-> method, arg |-> arg,
     chain |-> chain,
     call |-> IF what = "handleOps" THEN WriteContract(op) ELSE NoContractCall]

NewRpc(m, a, tx) ==
    [method |-> m, arg |-> a, tx |-> tx, pc |-> "", outcome |-> "", error |-> "",
     result |-> "", of |-> 0, userOp |-> NoOp, signature |-> 0]

Rpcs == DOMAIN rpcs

\* the call ends by returning or by rejecting
RpcReturns(i, result, of) ==
    rpcs' = [rpcs EXCEPT ![i].pc = "done", ![i].outcome = "returned",
                         ![i].result = result, ![i].of = of]

\* a failure that is swallowed: the call returns a hash all the same
RpcSwallows(i, error) ==
    rpcs' = [rpcs EXCEPT ![i].pc = "done", ![i].outcome = "returned",
                         ![i].result = "hash"]

RpcRaises(i, error) ==
    rpcs' = [rpcs EXCEPT ![i].pc = "done", ![i].outcome = "raised",
                         ![i].error = error]

NoProvider == [chain |-> 0, address |-> "", unit |-> ""]

RequestInit ==
    /\ provider = NoProvider
    /\ rpcs = <<>>
    /\ effects = <<>>

\* provider.request({method, params}), up to its first await
Request ==
    /\ Len(rpcs) < MaxRpcs
    /\ \E m \in RpcMethods : \E a \in RpcArgsOf(m) : \E tx \in RpcTxOf(m, a) :
          LET i == Len(rpcs) + 1
              new == NewRpc(m, a, tx)
          IN
          IF Route(provider.unit, m) = "userOperation"
          THEN IF a \in {"noparams", "missing"}
               THEN /\ rpcs' = Append(rpcs, [new EXCEPT !.pc = "done",
                                 !.outcome = "raised", !.error = "TypeError"])
                    /\ UNCHANGED effects
               ELSE /\ rpcs' = Append(rpcs, [new EXCEPT !.pc = "prepare"])
                    /\ effects' = Append(effects,
                          Effect(i, "prepareUserOperation",
                                 PreparedOp(i, tx, provider.address), m, a,
                                 provider.chain))
          ELSE IF Route(provider.unit, m) = "sendTransaction"
          THEN IF a = "noparams"
               THEN /\ rpcs' = Append(rpcs, [new EXCEPT !.pc = "done",
                                 !.outcome = "raised", !.error = "TypeError"])
                    /\ UNCHANGED effects
               ELSE /\ rpcs' = Append(rpcs, [new EXCEPT !.pc = "sendTransaction"])
                    /\ effects' = Append(effects,
                          Effect(i, "sendTransaction", NoOp, m, a,
                                 walletClient.chain))
          ELSE IF Route(provider.unit, m) = "typedData"
          THEN IF a = "noparams"
               THEN /\ rpcs' = Append(rpcs, [new EXCEPT !.pc = "done",
                                 !.outcome = "raised", !.error = "TypeError"])
                    /\ UNCHANGED effects
               ELSE /\ rpcs' = Append(rpcs, [new EXCEPT !.pc = "signTypedData"])
                    /\ effects' = Append(effects,
                          Effect(i, "signTypedData", NoOp, m,
                                 Spread(ParseTolerant(a)), walletClient.chain))
          ELSE /\ rpcs' = Append(rpcs, [new EXCEPT !.pc = "forward"])
               /\ effects' = Append(effects,
                     Effect(i, "walletRequest", NoOp, m, a, walletClient.chain))
    /\ UNCHANGED provider

\* await bundlerClient.prepareUserOperation(...) settles
PrepareSettle(i) ==
    /\ rpcs[i].pc = "prepare"
    /\ \/ LET userOp == PreparedOp(i, rpcs[i].tx, provider.address)
          IN /\ rpcs' = [rpcs EXCEPT ![i].pc = "sign", ![i].userOp = userOp]
             /\ effects' = Append(effects,
                   Effect(i, "signUserOperation", userOp, rpcs[i].method,
                          rpcs[i].arg, provider.chain))
       \/ /\ RpcRaises(i, "PrepareFailed")
          /\ UNCHANGED effects
    /\ UNCHANGED provider

\* await account.signUserOperation(userOp) settles
SignSettle(i) ==
    /\ rpcs[i].pc = "sign"
    /\ \/ /\ rpcs' = [rpcs EXCEPT ![i].pc = "submit", ![i].signature = i]
          /\ effects' = Append(effects,
                Effect(i, "handleOps", SubmittedOp(rpcs[i].userOp, i),
                       rpcs[i].method, rpcs[i].arg, provider.chain))
       \/ /\ RpcRaises(i, "SignatureError")
          /\ UNCHANGED effects
    /\ UNCHANGED provider

\* the submission settles and the hash is returned without the inclusion wait
SubmitSettleReturnsAtOnce(i) ==
    /\ rpcs[i].pc = "submit"
    /\ \/ RpcReturns(i, "hash", i)
       \/ RpcRaises(i, "ExecutionReverted")
    /\ UNCHANGED <<provider, effects>>

\* await ownerWalletClient.writeContract(handleOps ...) settles
SubmitSettle(i) ==
    /\ rpcs[i].pc = "submit"
    /\ \/ /\ rpcs' = [rpcs EXCEPT ![i].pc = "wait", ![i].of = i]
          /\ effects' = Append(effects,
                Effect(i, "waitForTransactionReceipt", NoOp, rpcs[i].method,
                       rpcs[i].arg, provider.chain))
       \/ /\ RpcRaises(i, "ExecutionReverted")
          /\ UNCHANGED effects
    /\ UNCHANGED provider

\* await publicClient.waitForTransactionReceipt({hash: executeTx}) settles
WaitSettle(i) ==
    /\ rpcs[i].pc = "wait"
    /\ \/ RpcReturns(i, "hash", rpcs[i].of)
       \/ RpcRaises(i, "ReceiptFailed")
    /\ UNCHANGED <<provider, effects>>

\* part_001: await walletClient.sendTransaction(tx) settles
SendTransactionSettle(i) ==
    /\ rpcs[i].pc = "sendTransaction"
    /\ \/ RpcReturns(i, "hash", i)
       \/ RpcRaises(i, "WalletError")
    /\ UNCHANGED <<provider, effects>>

\* await walletClient.signTypedData({...typedData}) settles
SignTypedDataSettle(i) ==
    /\ rpcs[i].pc = "signTypedData"
    /\ \/ RpcReturns(i, "signature", i)
       \/ RpcRaises(i, "SignatureError")
    /\ UNCHANGED <<provider, effects>>

\* await walletClient.request(...args) settles
ForwardSettle(i) ==
    /\ rpcs[i].pc = "forward"
    /\ \/ RpcReturns(i, "walletResult", i)
       \/ RpcRaises(i, "WalletError")
    /\ UNCHANGED <<provider, effects>>

RequestNext ==
    \/ Request /\ UNCHANGED <<bridgeVars, connectorVars, sessionVars, errorVars>>
    \/ \E i \in Rpcs : PrepareSettle(i) /\ UNCHANGED <<bridgeVars, connectorVars, sessionVars, errorVars>>
    \/ \E i \in Rpcs : SignSettle(i) /\ UNCHANGED <<bridgeVars, connectorVars, sessionVars, errorVars>>
    \/ \E i \in Rpcs : SubmitSettle(i) /\ UNCHANGED <<bridgeVars, connectorVars, sessionVars, errorVars>>
    \/ \E i \in Rpcs : WaitSettle(i) /\ UNCHANGED <<bridgeVars, connectorVars, sessionVars, errorVars>>
    \/ \E i \in Rpcs : SendTransactionSettle(i) /\ UNCHANGED <<bridgeVars, connectorVars, sessionVars, errorVars>>
    \/ \E i \in Rpcs : SignTypedDataSettle(i) /\ UNCHANGED <<bridgeVars, connectorVars, sessionVars, errorVars>>
    \/ \E i \in Rpcs : ForwardSettle(i) /\ UNCHANGED <<bridgeVars, connectorVars, sessionVars, errorVars>>

(***************************************************************************)
(* page.tsx: the message the catch block of handleSessionRequest shows.    *)
(*                                                                         *)
(* A string is the sequence of its words; an absent and an empty string    *)
(* are both <<>> (falsy).  An error value is its cause chain, outermost    *)
(* first, with what its walk property is: absent, viem's walk, or a        *)
(* function that throws.                                                   *)
(***************************************************************************)
MaxCauses == 2

NoText == <<>>

NoData == [message |-> NoText, errorName |-> NoText]

ErrorNames == {"Error", "ContractFunctionRevertedError"}

Links ==
    [name : ErrorNames,
     shortMessage : {NoText, <<"short">>},
     message : {NoText, <<"raw">>, <<"Error:", "raw">>},
     data : {NoData,
             [message |-> <<"data">>, errorName |-> <<"InsufficientBalance">>],
             [message |-> NoText, errorName |-> <<"InsufficientBalance">>]}]

Chains == UNION { [1..n -> Links] : n \in 1..MaxCauses }

Errors == [walk : {"none", "method", "throws"}, chain : Chains]

NoError == [walk |-> "none", chain |-> <<>>]

NotExtracted == <<"(not extracted)">>

\* String(err) of an error object: name, or name + ": " + message
StringOf(l) ==
    IF l.message = NoText THEN <<l.name>>
    ELSE <<IF l.name = "Error" THEN "Error:" ELSE "ContractFunctionRevertedError:">>
         \o l.message

\* the predicate handed to walk
WalkPredicate(l) ==
    \/ l.name = "ContractFunctionRevertedError"
    \/ l.shortMessage # NoText
    \/ l.message # NoText

\* error.walk(fn): the position of the first error of the cause chain that
\* satisfies fn; 0 (null) when none does
Walk(chain) ==
    IF \E k \in DOMAIN chain : WalkPredicate(chain[k])
    THEN CHOOSE k \in DOMAIN chain :
            /\ WalkPredicate(chain[k])
            /\ \A j \in 1..(k - 1) : ~WalkPredicate(chain[j])
    ELSE 0

\* the same preference with message put before shortMessage
MostSpecificRawFirst(l) ==
    IF l.message # NoText THEN l.message
    ELSE IF l.shortMessage # NoText THEN l.shortMessage
    ELSE IF l.data.message # NoText THEN l.data.message
    ELSE IF l.data.errorName # NoText THEN l.data.errorName
    ELSE StringOf(l)

\* specificError.shortMessage || specificError.message ||
\* specificError.data?.message || specificError.data?.errorName ||
\* String(specificError)
MostSpecific(l) ==
    IF l.shortMessage # NoText THEN l.shortMessage
    ELSE IF l.message # NoText THEN l.message
    ELSE IF l.data.message # NoText THEN l.data.message
    ELSE IF l.data.errorName # NoText THEN l.data.errorName
    ELSE StringOf(l)

\* .replace(/^(Error:|ContractFunctionRevertedError:)/, "").trim()
CleanUp(text) ==
    IF text # NoText /\ Head(text) \in {"Error:", "ContractFunctionRevertedError:"}
    THEN Tail(text)
    ELSE text

\* errorMessage as the catch block leaves it
ErrorMessageOf(e) ==
    IF e.walk = "method" /\ Walk(e.chain) # 0
    THEN CleanUp(MostSpecific(e.chain[Walk(e.chain)]))
    ELSE StringOf(e.chain[1])

ErrorInit ==
    /\ caught = NoError
    /\ errorMessage = NotExtracted

\* catch (error) { let errorMessage = String(error); ... }
ExtractMessage ==
    /\ caught # NoError
    /\ errorMessage = NotExtracted
    /\ errorMessage' = ErrorMessageOf(caught)
    /\ UNCHANGED caught

ExtractNext ==
    \/ ExtractMessage /\ UNCHANGED <<bridgeVars, connectorVars, requestVars, sessionVars>>

(***************************************************************************)
(* page.tsx: session proposals and active sessions.                        *)
(*                                                                         *)
(* The pairing layer (WalletKit) holds the proposals awaiting a decision   *)
(* and the sessions; the page holds currentSessionProposal and its own     *)
(* copy activeSessions.  A session is [topic, expired]; the session a      *)
(* proposal commits has the proposal's id as its topic.                    *)
(***************************************************************************)
UserDisconnectedCode == 6000

ProposalIds == 1..MaxProposals

\* filterActiveSessions(Object.values(sessions))
FilterActiveSessions(sessions) == { s \in sessions : ~s.expired }

\* the local set is kept as it was instead of being re-read
KeepLocalSessions(local, kit) == local

\* setActiveSessions(filterActiveSessions(Object.values(
\*     walletKit.getActiveSessions())))
RereadSessions(local, kit) == FilterActiveSessions(kit)

\* rejectSession with another reason code
RejectSessionGeneric(id) ==
    [what |-> "rejectSession", id |-> id, code |-> 5000, chains |-> {}]

\* walletKit.rejectSession({ id, reason: { code: 4001, ... } })
RejectSessionCall(id) ==
    [what |-> "rejectSession", id |-> id, code |-> UserRejectedCode,
     chains |-> {}]

\* walletKit.approveSession({ id, namespaces })
\* supportedNamespaces.eip155.methods: the methods the bridge advertises
SupportedMethods ==
    {"eth_sendTransaction", "eth_sign", "personal_sign", "eth_signTransaction",
     "eth_signTypedData", "eth_signTypedData_v3", "eth_signTypedData_v4",
     "wallet_switchEthereumChain", "wallet_addEthereumChain"}

ApproveSessionCall(id) ==
    [what |-> "approveSession", id |-> id, code |-> 0, chains |-> walletChains,
     methods |-> SupportedMethods]

\* disconnectSession with the user-rejection code
DisconnectSessionRejected(topic) ==
    [what |-> "disconnectSession", id |-> topic, code |-> UserRejectedCode,
     chains |-> {}]

\* walletKit.disconnectSession({ topic, reason: { code: 6000, ... } })
DisconnectSessionCall(topic) ==
    [what |-> "disconnectSession", id |-> topic, code |-> UserDisconnectedCode,
     chains |-> {}]

SessionCall(op, id, pc, outcome) ==
    [op |-> op, id |-> id, pc |-> pc, outcome |-> outcome]

SessionCalls == DOMAIN sessionCalls

SessionToast(title, n) == [title |-> title, call |-> n]

SessionInit ==
    /\ accountAddress \in BOOLEAN
    /\ activeSessions = {}
    /\ currentSessionProposal = 0
    /\ isSessionProposalOpen = FALSE
    /\ sessionCalls = <<>>
    /\ kitProposals = {}
    /\ kitSessions = {}
    /\ kitLog = <<>>
    /\ sessionToasts = {}

\* the session_proposal event: the handler stores the proposal and opens the modal
SessionProposalEvent ==
    /\ walletKit
    /\ \E p \in ProposalIds :
          /\ p \notin kitProposals
          /\ \A s \in kitSessions : s.topic # p
          /\ \A k \in DOMAIN kitLog : kitLog[k].id # p
          /\ \A q \in kitProposals : q < p
          /\ kitProposals' = kitProposals \cup {p}
          /\ currentSessionProposal' = p
    /\ isSessionProposalOpen' = TRUE
    /\ UNCHANGED <<accountAddress, activeSessions, sessionCalls, kitSessions,
                   kitLog, sessionToasts>>

\* the session_delete event: the peer ended a session; the handler re-reads
SessionDeleteEvent ==
    /\ walletKit
    /\ \E s \in kitSessions :
          /\ kitSessions' = kitSessions \ {s}
          /\ activeSessions' = RereadSessions(activeSessions, kitSessions')
    /\ UNCHANGED <<accountAddress, currentSessionProposal, isSessionProposalOpen,
                   sessionCalls, kitProposals, kitLog, sessionToasts>>

\* time passes: a session the pairing layer still holds reaches its expiry
SessionExpires ==
    /\ \E s \in kitSessions :
          /\ ~s.expired
          /\ kitSessions' = (kitSessions \ {s}) \cup {[s EXCEPT !.expired = TRUE]}
    /\ UNCHANGED <<accountAddress, activeSessions, currentSessionProposal,
                   isSessionProposalOpen, sessionCalls, kitProposals, kitLog,
                   sessionToasts>>

\* approveSessionProposal(), up to its await
ApproveSessionProposal ==
    /\ Len(sessionCalls) < MaxSessionCalls
    /\ LET n == Len(sessionCalls) + 1
           p == currentSessionProposal
       IN IF ~walletKit \/ p = 0 \/ ~accountAddress
          THEN /\ sessionCalls' = Append(sessionCalls,
                                         SessionCall("approve", p, "done", "returned"))
               /\ UNCHANGED <<kitLog, sessionToasts>>
          ELSE \/ /\ sessionCalls' = Append(sessionCalls,
                                            SessionCall("approve", p, "await", ""))
                  /\ kitLog' = Append(kitLog, ApproveSessionCall(p))
                  /\ UNCHANGED sessionToasts
               \/ \* buildApprovedNamespaces throws
                  /\ sessionCalls' = Append(sessionCalls,
                                            SessionCall("approve", p, "done", "caught"))
                  /\ sessionToasts' = sessionToasts \cup
                        {SessionToast("Failed to approve session", n)}
                  /\ UNCHANGED kitLog
    /\ UNCHANGED <<accountAddress, activeSessions, currentSessionProposal,
                   isSessionProposalOpen, kitProposals, kitSessions>>

\* await walletKit.approveSession(...) settles
ApproveSettle(n) ==
    /\ sessionCalls[n].op = "approve"
    /\ sessionCalls[n].pc = "await"
    /\ LET p == sessionCalls[n].id
       IN \/ /\ p \in kitProposals
             /\ kitProposals' = kitProposals \ {p}
             /\ kitSessions' = kitSessions \cup {[topic |-> p, expired |-> FALSE]}
             /\ activeSessions' = RereadSessions(activeSessions, kitSessions')
             /\ isSessionProposalOpen' = FALSE
             /\ currentSessionProposal' = 0
             /\ sessionCalls' = [sessionCalls EXCEPT ![n].pc = "done",
                                                     ![n].outcome = "succeeded"]
             /\ sessionToasts' = sessionToasts \cup
                                   {SessionToast("Session approved", n)}
          \/ /\ sessionCalls' = [sessionCalls EXCEPT ![n].pc = "done",
                                                     ![n].outcome = "caught"]
             /\ sessionToasts' = sessionToasts \cup
                                   {SessionToast("Failed to approve session", n)}
             /\ UNCHANGED <<activeSessions, currentSessionProposal,
                            isSessionProposalOpen, kitProposals, kitSessions>>
    /\ UNCHANGED <<accountAddress, kitLog>>

\* rejectSessionProposal(), up to its await
RejectSessionProposal ==
    /\ Len(sessionCalls) < MaxSessionCalls
    /\ LET p == currentSessionProposal
       IN IF ~walletKit \/ p = 0
          THEN /\ sessionCalls' = Append(sessionCalls,
                                         SessionCall("reject", p, "done", "returned"))
               /\ UNCHANGED kitLog
          ELSE /\ sessionCalls' = Append(sessionCalls,
                                         SessionCall("reject", p, "await", ""))
               /\ kitLog' = Append(kitLog, RejectSessionCall(p))
    /\ UNCHANGED <<accountAddress, activeSessions, currentSessionProposal,
                   isSessionProposalOpen, kitProposals, kitSessions,
                   sessionToasts>>

\* await walletKit.rejectSession(...) settles
RejectSettle(n) ==
    /\ sessionCalls[n].op = "reject"
    /\ sessionCalls[n].pc = "await"
    /\ LET p == sessionCalls[n].id
       IN \/ /\ p \in kitProposals
             /\ kitProposals' = kitProposals \ {p}
             /\ isSessionProposalOpen' = FALSE
             /\ currentSessionProposal' = 0
             /\ sessionCalls' = [sessionCalls EXCEPT ![n].pc = "done",
                                                     ![n].outcome = "succeeded"]
             /\ sessionToasts' = sessionToasts \cup
                                   {SessionToast("Session rejected", n)}
          \/ /\ sessionCalls' = [sessionCalls EXCEPT ![n].pc = "done",
                                                     ![n].outcome = "caught"]
             /\ sessionToasts' = sessionToasts \cup
                                   {SessionToast("Failed to reject session", n)}
             /\ UNCHANGED <<currentSessionProposal, isSessionProposalOpen,
                            kitProposals>>
    /\ UNCHANGED <<accountAddress, activeSessions, kitSessions, kitLog>>

\* disconnectSession(topic) for a session the page lists, up to its await
DisconnectSession ==
    /\ Len(sessionCalls) < MaxSessionCalls
    /\ \E s \in activeSessions :
          IF ~walletKit
          THEN /\ sessionCalls' = Append(sessionCalls,
                      SessionCall("disconnect", s.topic, "done", "returned"))
               /\ UNCHANGED kitLog
          ELSE /\ sessionCalls' = Append(sessionCalls,
                      SessionCall("disconnect", s.topic, "await", ""))
               /\ kitLog' = Append(kitLog, DisconnectSessionCall(s.topic))
    /\ UNCHANGED <<accountAddress, activeSessions, currentSessionProposal,
                   isSessionProposalOpen, kitProposals, kitSessions,
                   sessionToasts>>

\* await walletKit.disconnectSession(...) settles
DisconnectSettle(n) ==
    /\ sessionCalls[n].op = "disconnect"
    /\ sessionCalls[n].pc = "await"
    /\ LET topic == sessionCalls[n].id
       IN \/ /\ \E s \in kitSessions : s.topic = topic
             /\ kitSessions' = { s \in kitSessions : s.topic # topic }
             /\ activeSessions' = RereadSessions(activeSessions, kitSessions')
             /\ sessionCalls' = [sessionCalls EXCEPT ![n].pc = "done",
                                                     ![n].outcome = "succeeded"]
             /\ sessionToasts' = sessionToasts \cup
                                   {SessionToast("Session disconnected", n)}
          \/ /\ sessionCalls' = [sessionCalls EXCEPT ![n].pc = "done",
                                                     ![n].outcome = "caught"]
             /\ sessionToasts' = sessionToasts \cup
                                   {SessionToast("Failed to disconnect session", n)}
             /\ UNCHANGED <<activeSessions, kitSessions>>
    /\ UNCHANGED <<accountAddress, currentSessionProposal, isSessionProposalOpen,
                   kitProposals, kitLog>>

SessionsNext ==
    \/ WalletKitInit /\ UNCHANGED <<connectorVars, requestVars, sessionVars, errorVars>>
    \/ SessionProposalEvent /\ UNCHANGED <<bridgeVars, connectorVars, requestVars, errorVars>>
    \/ SessionDeleteEvent /\ UNCHANGED <<bridgeVars, connectorVars, requestVars, errorVars>>
    \/ SessionExpires /\ UNCHANGED <<bridgeVars, connectorVars, requestVars, errorVars>>
    \/ ApproveSessionProposal /\ UNCHANGED <<bridgeVars, connectorVars, requestVars, errorVars>>
    \/ \E n \in SessionCalls : ApproveSettle(n) /\ UNCHANGED <<bridgeVars, connectorVars, requestVars, errorVars>>
    \/ RejectSessionProposal /\ UNCHANGED <<bridgeVars, connectorVars, requestVars, errorVars>>
    \/ \E n \in SessionCalls : RejectSettle(n) /\ UNCHANGED <<bridgeVars, connectorVars, requestVars, errorVars>>
    \/ DisconnectSession /\ UNCHANGED <<bridgeVars, connectorVars, requestVars, errorVars>>
    \/ \E n \in SessionCalls : DisconnectSettle(n) /\ UNCHANGED <<bridgeVars, connectorVars, requestVars, errorVars>>

(***************************************************************************)
(* The specifications.                                                     *)
(***************************************************************************)
\* the page alone: the connector stays as constructed
InitBridge ==
    /\ BridgeInit /\ ConnectorInit /\ RequestInit /\ SessionInit /\ ErrorInit
    /\ address = "0xA"
    /\ accountAddress = TRUE

SpecBridge == InitBridge /\ [][BridgeNext]_vars

\* the connector alone: the page stays as constructed
InitConnector ==
    /\ BridgeInit /\ ConnectorInit /\ RequestInit /\ SessionInit /\ ErrorInit
    /\ pageWalletClient = FALSE
    /\ accountAddress = FALSE

SpecConnector == InitConnector /\ [][ConnectorNext]_vars

\* a getProvider({chainId: c}) call that has returned its provider
SettledGetProvider(c) ==
    [NewTask("getProvider", c) EXCEPT !.pc = "done", !.outcome = "returned"]

\* a provider in use: getProvider has settled for a configured chain, and the
\* connector's wallet is the one bound by it or by a later getProvider
InitRequest ==
    /\ BridgeInit /\ pageWalletClient = FALSE
    /\ connected = TRUE
    /\ address = "0xA"
    /\ provider \in [chain : ConfiguredIds, address : {"0xA"}, unit : Units]
    /\ walletClient \in [chain : ConfiguredIds, address : {"0xA"}]
    /\ tasks = IF walletClient.chain = provider.chain
               THEN <<SettledGetProvider(provider.chain)>>
               ELSE <<SettledGetProvider(provider.chain),
                      SettledGetProvider(walletClient.chain)>>
    /\ derivations = Len(tasks)
    /\ emitted = <<>>
    /\ lastCall = NoCall
    /\ rpcs = <<>>
    /\ effects = <<>>
    /\ SessionInit /\ ErrorInit
    /\ accountAddress = TRUE

SpecRequest == InitRequest /\ [][RequestNext]_vars

\* a provider in use while the connector is asked for providers again: the
\* request handler's steps interleaved with getProvider calls
RebindingNext ==
    \/ Request /\ UNCHANGED <<bridgeVars, connectorVars, sessionVars, errorVars>>
    \/ \E i \in Rpcs : PrepareSettle(i) /\ UNCHANGED <<bridgeVars, connectorVars, sessionVars, errorVars>>
    \/ \E i \in Rpcs : SignSettle(i) /\ UNCHANGED <<bridgeVars, connectorVars, sessionVars, errorVars>>
    \/ \E i \in Rpcs : SubmitSettle(i) /\ UNCHANGED <<bridgeVars, connectorVars, sessionVars, errorVars>>
    \/ \E i \in Rpcs : WaitSettle(i) /\ UNCHANGED <<bridgeVars, connectorVars, sessionVars, errorVars>>
    \/ \E i \in Rpcs : SendTransactionSettle(i) /\ UNCHANGED <<bridgeVars, connectorVars, sessionVars, errorVars>>
    \/ \E i \in Rpcs : SignTypedDataSettle(i) /\ UNCHANGED <<bridgeVars, connectorVars, sessionVars, errorVars>>
    \/ \E i \in Rpcs : ForwardSettle(i) /\ UNCHANGED <<bridgeVars, connectorVars, sessionVars, errorVars>>
    \/ GetProvider /\ UNCHANGED <<bridgeVars, requestVars, sessionVars, errorVars>>
    \/ \E t \in Tasks : DeriveSettle(t) /\ UNCHANGED <<bridgeVars, requestVars, sessionVars, errorVars>>

SpecRebinding == InitRequest /\ [][RebindingNext]_vars

InitSessions ==
    /\ BridgeInit /\ ConnectorInit /\ RequestInit /\ SessionInit /\ ErrorInit
    /\ pageWalletClient = accountAddress
    /\ address = "0xA"

SpecSessions == InitSessions /\ [][SessionsNext]_vars

\* the catch block alone, for every error value it can receive
InitExtract ==
    /\ BridgeInit /\ ConnectorInit /\ RequestInit /\ SessionInit
    /\ pageWalletClient = FALSE
    /\ accountAddress = FALSE
    /\ address = "0xA"
    /\ caught \in Errors
    /\ errorMessage = NotExtracted

SpecExtract == InitExtract /\ [][ExtractNext]_vars

(***************************************************************************)
(* Claims about the session bridge (checked under SpecBridge).             *)
(***************************************************************************)
\* the request an event of the log belongs to
RequestOf(e) == IF e.id = 0 THEN NoRequest ELSE arrived[e.id]

\* the events of the log made by the same handleSessionRequest invocation as e
SameInvocation(e) == { j \in DOMAIN log : log[j].inv = e.inv }

IsInvoke(e, what, ran) == e.kind = "invoke" /\ e.what = what /\ e.arg = ran

\* C1 (as claimed): every handleSessionRequest(false) made while a request is
\* current sends exactly {id, error: {code 4001, "User rejected the request"}}
\* on the request's topic, and calls no wallet capability and no chain switch.
C1_RejectAlwaysResponds ==
    \A i \in DOMAIN log :
        (log[i].kind = "invoke" /\ log[i].what = "reject" /\ log[i].id # 0) =>
            /\ log[i].arg = "run"
            /\ i < Len(log)
            /\ log[i + 1] = Ev("respond", log[i].inv, log[i].id, "error",
                               "User rejected the request", 0,
                               RequestOf(log[i]).topic, 4001)
            /\ \A j \in SameInvocation(log[i]) :
                   log[j].kind \notin {"wallet", "switch"}

\* C2 (as claimed): an approved request whose execution fails is answered with
\* a protocol error response carrying its id.
C2_FailedApprovalAnswered ==
    \A i \in DOMAIN log :
        (log[i].kind = "caught" /\ log[i].what = "approve") =>
            \E j \in DOMAIN log :
                /\ j > i
                /\ log[j].kind = "respond"
                /\ log[j].what = "error"
                /\ log[j].id = log[i].id
                /\ log[j].inv = log[i].inv

\* C3 (as claimed): a wallet capability is called on a chain other than the
\* request's declared chain only after a switch to the declared chain was
\* attempted and has settled; and once the required switch (handleChainSwitch)
\* has failed the request gets an error response and never a success response.
C3_SwitchBeforeCapability ==
    /\ \A i \in DOMAIN log :
          (log[i].kind = "wallet" /\ log[i].chain # RequestOf(log[i]).chainId) =>
              \E j \in DOMAIN log :
                  /\ j < i
                  /\ log[j].kind = "switch"
                  /\ log[j].what \in {"ok", "fail"}
                  /\ log[j].id = log[i].id
                  /\ log[j].chain = RequestOf(log[i]).chainId
    /\ \A j \in DOMAIN log :
          (log[j].kind = "switch" /\ log[j].what = "fail" /\ log[j].inv = 0
             /\ log[j].id # 0) =>
              /\ \A k \in DOMAIN log :
                     (k > j /\ log[k].kind = "respond" /\ log[k].id = log[j].id)
                         => log[k].what = "error"
              /\ \E k \in DOMAIN log :
                     /\ k > j
                     /\ log[k].kind = "respond"
                     /\ log[k].what = "error"
                     /\ log[k].id = log[j].id

\* C4 (as claimed): while a request is current, needsChainSwitch holds exactly
\* when the declared chain differs from the active chain and the method is a
\* signing/sending method (one the dispatcher serves with sendTransaction,
\* signMessage or signTypedData); it is false for chain-switch, chain-add and
\* unrecognized methods; targetChainId is the declared chain exactly when
\* needsChainSwitch holds and null otherwise.
C4_NeedsChainSwitchIff ==
    currentSessionRequest # NoRequest =>
        /\ needsChainSwitch <=>
              /\ currentSessionRequest.chainId # chainId
              /\ currentSessionRequest.method \in
                     SendMethods \cup MessageSignMethods \cup TypedDataMethods
        /\ targetChainId =
              IF needsChainSwitch THEN currentSessionRequest.chainId ELSE 0

\* C5 (as claimed): an approved wallet_addEthereumChain request, whatever its
\* parameters, tells the notifier, calls no chain switch and is answered with
\* the success response whose result is null.
C5_AddChainAlwaysNull ==
    \A i \in DOMAIN log :
        (IsInvoke(log[i], "approve", "run")
           /\ RequestOf(log[i]).method = "wallet_addEthereumChain") =>
            /\ i < Len(log)
            /\ log[i + 1] = Ev("respond", log[i].inv, log[i].id, "result", "null",
                               0, RequestOf(log[i]).topic, 0)
            /\ [title |-> "Add Chain Request", id |-> log[i].id] \in toasts
            /\ \A j \in SameInvocation(log[i]) : log[j].kind # "switch"

\* the capability the claim expects for a method ("" = none)
ExpectedCapability(m) ==
    IF m \in SendMethods THEN "sendTransaction"
    ELSE IF m \in MessageSignMethods THEN "signMessage"
    ELSE IF m \in TypedDataMethods THEN "signTypedData"
    ELSE IF m = "wallet_switchEthereumChain" THEN "switchChain"
    ELSE ""

\* the call of capability c by invocation n, as an event predicate
IsCapabilityCall(e, c) ==
    IF c = "switchChain" THEN e.kind = "switch" /\ e.what = "call"
    ELSE e.kind = "wallet" /\ e.what = c

\* reading the parameter of request r fails before anything is called
ParameterUnreadable(r) ==
    \/ r.arg = "noparams" /\ r.method # "wallet_addEthereumChain"
    \/ r.arg = "missing" /\ r.method \notin MessageSignMethods
                         /\ r.method # "wallet_addEthereumChain"

Ends(t) ==
    /\ t \in DOMAIN tasks'
    /\ tasks'[t].pc = "done"
    /\ t \in DOMAIN tasks => tasks[t].pc # "done"

\* task t ends in this step at a place where only a failure ends it: while
\* deriving the provider, looking the chain id up or finding the chain to
\* switch to
EndsByFailure(t) ==
    /\ Ends(t)
    /\ \/ t \notin DOMAIN tasks
       \/ tasks[t].pc \in {"derive", "getChainId", "switchFind"}

\* C7: connect never raises to its caller; when its provider derivation,
\* chain-id lookup or chain switch fails, connect leaves connected = false and
\* returns {accounts: [], chainId: 0}.
C7_ConnectNeverRaises ==
    [][\A t \in DOMAIN tasks' :
          (Ends(t) /\ tasks'[t].op = "connect") =>
              /\ tasks'[t].outcome = "returned"
              /\ EndsByFailure(t) =>
                    /\ connected' = FALSE
                    /\ tasks'[t].result = [accounts |-> <<>>, chainId |-> 0]]_vars

\* C7 witness: a connect to an unlisted chain has failed at its chain switch
C7_Witness ==
    \E t \in DOMAIN tasks :
        /\ tasks[t].op = "connect"
        /\ tasks[t].chainId = 10
        /\ tasks[t].inSwitch
        /\ tasks[t].pc = "done"
        /\ tasks[t].outcome = "returned"
        /\ tasks[t].result = EmptyResult
        /\ ~connected

\* C8 (as claimed): when connect(targetChainId) succeeds for a configured
\* chain, the connector is connected, the returned chainId is targetChainId
\* and is what getChainId() then returns, and the returned accounts are what
\* getAccounts() then returns.
C8_ConnectResultMatches ==
    [][\A t \in DOMAIN tasks' :
          (Ends(t) /\ ~EndsByFailure(t) /\ tasks'[t].op = "connect"
             /\ tasks'[t].chainId \in ConfiguredIds) =>
              /\ connected'
              /\ tasks'[t].result.chainId = tasks'[t].chainId
              /\ GetChainIdOutcome' =
                     Call("getChainId", "returned", "", <<>>,
                          tasks'[t].result.chainId, FALSE)
              /\ GetAccountsOutcome' =
                     Call("getAccounts", "returned", "",
                          tasks'[t].result.accounts, 0, FALSE)]_vars

\* a call that disconnects: disconnect(), onDisconnect(), onAccountsChanged([])
IsDisconnectCall(c) ==
    \/ c.op \in {"disconnect", "onDisconnect"}
    \/ c.op = "onAccountsChanged" /\ c.accounts = <<>>

\* C9: while connected is false every getAccounts() fails with "Not connected"
\* and every isAuthorized() returns false; a disconnecting call leaves
\* connected false; connected becomes true again only in the step in which a
\* connect succeeds; and disconnect() derives no provider and touches neither
\* the wallet nor any task in flight.
C9_DisconnectedUntilConnect ==
    /\ [](~connected =>
            /\ GetAccountsOutcome.outcome = "raised"
            /\ GetAccountsOutcome.error = "Not connected"
            /\ IsAuthorizedOutcome.outcome = "returned"
            /\ IsAuthorizedOutcome.flag = FALSE
            /\ lastCall.op = "getAccounts" =>
                   lastCall.outcome = "raised" /\ lastCall.error = "Not connected"
            /\ lastCall.op = "isAuthorized" =>
                   lastCall.outcome = "returned" /\ lastCall.flag = FALSE)
    /\ [][/\ IsDisconnectCall(lastCall') => ~connected'
          /\ lastCall'.op = "disconnect" =>
                /\ derivations' = derivations
                /\ walletClient' = walletClient
                /\ tasks' = tasks
                /\ emitted' = emitted
          /\ (~connected /\ connected') =>
                \E t \in DOMAIN tasks' :
                    /\ Ends(t)
                    /\ ~EndsByFailure(t)
                    /\ tasks'[t].op = "connect"
                    /\ tasks'[t].outcome = "returned"]_vars

\* C9 witness: no connect was ever called, the wallet was bound by a completed
\* switchChain, and after a disconnect getAccounts() has just failed
C9_Witness ==
    /\ ~connected
    /\ walletClient # NoClient
    /\ \A t \in DOMAIN tasks : tasks[t].op # "connect"
    /\ \E t \in DOMAIN tasks :
           tasks[t].op = "switchChain" /\ tasks[t].outcome = "returned"
    /\ lastCall.op = "getAccounts"
    /\ lastCall.outcome = "raised"
    /\ lastCall.error = "Not connected"

\* C10 (as claimed): isAuthorized() never raises; it returns false when not
\* connected and otherwise whether getAccounts() is non-empty.
C10_IsAuthorizedNeverRaises ==
    lastCall.op = "isAuthorized" =>
        /\ lastCall.outcome = "returned"
        /\ lastCall.flag = (connected /\ AccountsOf(walletClient) # <<>>)

\* C11 (as claimed): getProvider for a chain id outside the configured chains
\* fails with ChainNotConfigured and binds no wallet; no getProvider binds a
\* wallet for another chain than the one it was asked for.
C11_UnlistedChainNotBound ==
    [][\A t \in DOMAIN tasks :
          (tasks[t].op = "getProvider" /\ tasks[t].chainId # 0 /\ Ends(t)) =>
              /\ tasks[t].chainId \notin ConfiguredIds =>
                    /\ tasks'[t].outcome = "raised"
                    /\ tasks'[t].error = "ChainNotConfigured"
                    /\ walletClient' = walletClient
              /\ walletClient' # walletClient =>
                    walletClient'.chain = tasks[t].chainId]_vars

\* C12 (as claimed): once its provider derivation has succeeded,
\* switchChain(chainId) for a configured chain emits exactly
\* one chain-changed notification carrying chainId and returns that chain, and
\* getChainId() then returns chainId; for an unlisted chain it fails with
\* ChainNotConfigured and emits nothing.
C12_SwitchChainRebinds ==
    [][\A t \in DOMAIN tasks :
          (tasks[t].op = "switchChain" /\ tasks[t].pc = "switchFind" /\ Ends(t)) =>
              IF tasks[t].chainId \in ConfiguredIds
              THEN /\ tasks'[t].outcome = "returned"
                   /\ tasks'[t].result.chainId = tasks[t].chainId
                   /\ emitted' = Append(emitted, tasks[t].chainId)
                   /\ GetChainIdOutcome' =
                          Call("getChainId", "returned", "", <<>>,
                               tasks[t].chainId, FALSE)
              ELSE /\ tasks'[t].outcome = "raised"
                   /\ tasks'[t].error = "ChainNotConfigured"
                   /\ emitted' = emitted]_vars

(***************************************************************************)
(* Claims about the provider's request handler (checked under SpecRequest).*)
(***************************************************************************)
\* the calls made on behalf of request i, as positions of effects
EffectsOf(i) == { k \in DOMAIN effects : effects[k].rpc = i }

EffectsOfKind(i, kinds) == { k \in EffectsOf(i) : effects[k].what \in kinds }

UserOperationFlow ==
    {"prepareUserOperation", "signUserOperation", "handleOps",
     "waitForTransactionReceipt"}

\* C13 (as claimed): request routes every call to exactly one path:
\* eth_sendTransaction to the user-operation flow and never to the bound
\* wallet; eth_signTypedData_v4 to the bound account's typed-data signing;
\* every other method verbatim to the bound wallet's request handler, whose
\* result is returned unchanged.
C13_RoutesToOnePath ==
    \A i \in DOMAIN rpcs :
        IF rpcs[i].method = "eth_sendTransaction"
        THEN /\ \A k \in EffectsOf(i) : effects[k].what \in UserOperationFlow
             /\ rpcs[i].outcome = "returned" =>
                   \A w \in UserOperationFlow :
                       Cardinality(EffectsOfKind(i, {w})) = 1
        ELSE IF rpcs[i].method = "eth_signTypedData_v4"
        THEN /\ \A k \in EffectsOf(i) : effects[k].what = "signTypedData"
             /\ rpcs[i].outcome = "returned" =>
                   /\ Cardinality(EffectsOf(i)) = 1
                   /\ rpcs[i].result = "signature"
        ELSE /\ Cardinality(EffectsOf(i)) = 1
             /\ \A k \in EffectsOf(i) :
                   /\ effects[k].what = "walletRequest"
                   /\ effects[k].method = rpcs[i].method
                   /\ effects[k].arg = rpcs[i].arg
             /\ rpcs[i].outcome = "returned" =>
                   rpcs[i].result = "walletResult" /\ rpcs[i].of = i

\* C14: every user operation that is prepared, signed or submitted for an
\* eth_sendTransaction request has exactly one call, whose to, data and value
\* are those of the request's params[0]; and the operation in the submitted
\* batch is the operation that was signed, carrying the signature obtained
\* for it.
C14_UserOpCarriesIntent ==
    \A k \in DOMAIN effects :
        LET e == effects[k]
            r == rpcs[e.rpc]
        IN /\ e.what \in {"prepareUserOperation", "signUserOperation", "handleOps"} =>
                 /\ r.method = "eth_sendTransaction"
                 /\ Len(e.op.calls) = 1
                 /\ e.op.calls[1].to = r.tx.to
                 /\ e.op.calls[1].data = r.tx.data
                 /\ e.op.calls[1].value = r.tx.value
           /\ e.what = "handleOps" =>
                 \E j \in 1..(k - 1) :
                     /\ effects[j].what = "signUserOperation"
                     /\ effects[j].rpc = e.rpc
                     /\ effects[j].op = [e.op EXCEPT !.signature = 0]
                     /\ e.op.signature = r.signature
                     /\ r.signature # 0

\* C14 witness: a request with data and value has returned its hash after its
\* operation was submitted
C14_Witness ==
    \E i \in DOMAIN rpcs :
        /\ rpcs[i].method = "eth_sendTransaction"
        /\ rpcs[i].tx.data = "0xd"
        /\ rpcs[i].tx.value = "1"
        /\ rpcs[i].outcome = "returned"
        /\ EffectsOfKind(i, {"handleOps"}) # {}

Submissions == {"handleOps", "sendTransaction"}

\* C15: an eth_sendTransaction call submits at most once: exactly once when it
\* returns a hash, not at all while or after preparation or signing fails; a
\* call that failed is over (it raised to its caller and makes no further
\* call); and no user operation is in two submissions.
C15_AtMostOneSubmission ==
    /\ [](\A i \in DOMAIN rpcs :
            rpcs[i].method = "eth_sendTransaction" =>
                LET n == Cardinality(EffectsOfKind(i, Submissions))
                IN /\ n <= 1
                   /\ rpcs[i].outcome = "returned" =>
                         n = 1 /\ rpcs[i].result = "hash"
                   /\ rpcs[i].pc \in {"prepare", "sign"} => n = 0
                   /\ rpcs[i].error \in {"TypeError", "PrepareFailed", "SignatureError"} =>
                         n = 0
                   /\ rpcs[i].error # "" =>
                         rpcs[i].outcome = "raised" /\ rpcs[i].pc = "done")
    /\ [](\A j, k \in DOMAIN effects :
            (effects[j].what = "handleOps" /\ effects[k].what = "handleOps"
               /\ effects[j].op.id = effects[k].op.id) => j = k)
    /\ [][\A i \in DOMAIN rpcs :
            rpcs[i].pc = "done" =>
                /\ rpcs'[i] = rpcs[i]
                /\ \A k \in DOMAIN effects' :
                      effects'[k].rpc = i => k \in DOMAIN effects]_vars

\* C15 witness: one call has returned its hash, another has failed after its
\* submission
C15_Witness ==
    \E i, j \in DOMAIN rpcs :
        /\ rpcs[i].method = "eth_sendTransaction"
        /\ rpcs[i].outcome = "returned"
        /\ rpcs[j].method = "eth_sendTransaction"
        /\ rpcs[j].error \in {"ExecutionReverted", "ReceiptFailed"}
        /\ Cardinality(EffectsOfKind(j, Submissions)) = 1

(***************************************************************************)
(* Further claims about the session bridge (checked under SpecBridge).     *)
(***************************************************************************)
\* C16 (as claimed): when the typed-data payload of an approved request is a
\* string that does not parse, that string is what the signing capability is
\* handed, unchanged.
C16_UnparseableStringSigned ==
    \A k \in DOMAIN log :
        (/\ log[k].kind = "wallet"
         /\ log[k].what = "signTypedData"
         /\ RequestOf(log[k]).arg = "text") => log[k].arg = "text"

(***************************************************************************)
(* Claims about proposals and sessions (checked under SpecSessions).       *)
(***************************************************************************)
\* invocation n settles in this step with the given outcome
SettlesAs(n, ops, outcome) ==
    /\ sessionCalls[n].op \in ops
    /\ sessionCalls[n].pc = "await"
    /\ sessionCalls'[n].pc = "done"
    /\ sessionCalls'[n].outcome = outcome

\* C17: whenever an approveSessionProposal or a disconnectSession completes,
\* and whenever the local active-session set changes at all, the local set
\* is the filtered set the pairing layer holds at that moment.
C17_SessionsReRead ==
    [][/\ \A n \in DOMAIN sessionCalls :
             SettlesAs(n, {"approve", "disconnect"}, "succeeded") =>
                 activeSessions' = FilterActiveSessions(kitSessions')
       /\ activeSessions' # activeSessions =>
             activeSessions' = FilterActiveSessions(kitSessions')]_vars

\* C17 witness: after an approval and a disconnect have completed the page
\* still lists a session
C17_Witness ==
    /\ activeSessions # {}
    /\ \E n \in DOMAIN sessionCalls :
           sessionCalls[n].op = "approve" /\ sessionCalls[n].outcome = "succeeded"
    /\ \E n \in DOMAIN sessionCalls :
           sessionCalls[n].op = "disconnect" /\ sessionCalls[n].outcome = "succeeded"

\* C18: disconnectSession(topic) sends the pairing layer a disconnect of that
\* topic with reason code 6000; when it succeeds the topic is not in the
\* local set; when it fails the local set is unchanged and the notifier is
\* told "Failed to disconnect session", the failure being caught.
C18_DisconnectSession ==
    /\ [](/\ \A n \in DOMAIN sessionCalls :
               (sessionCalls[n].op = "disconnect"
                  /\ sessionCalls[n].outcome # "returned") =>
                   \E k \in DOMAIN kitLog :
                       /\ kitLog[k].what = "disconnectSession"
                       /\ kitLog[k].id = sessionCalls[n].id
                       /\ kitLog[k].code = 6000
          /\ \A k \in DOMAIN kitLog :
               kitLog[k].what = "disconnectSession" => kitLog[k].code = 6000)
    /\ [][\A n \in DOMAIN sessionCalls :
             /\ SettlesAs(n, {"disconnect"}, "succeeded") =>
                   \A s \in activeSessions' : s.topic # sessionCalls[n].id
             /\ (/\ sessionCalls[n].op = "disconnect"
                 /\ sessionCalls[n].pc = "await"
                 /\ sessionCalls'[n].pc = "done"
                 /\ sessionCalls'[n].outcome # "succeeded") =>
                   /\ sessionCalls'[n].outcome = "caught"
                   /\ activeSessions' = activeSessions
                   /\ SessionToast("Failed to disconnect session", n)
                          \in sessionToasts']_vars

\* C18 witness: one disconnect has succeeded and another has failed
C18_Witness ==
    \E n, m \in DOMAIN sessionCalls :
        /\ sessionCalls[n].op = "disconnect"
        /\ sessionCalls[n].outcome = "succeeded"
        /\ sessionCalls[m].op = "disconnect"
        /\ sessionCalls[m].outcome = "caught"

\* the decisions on proposal p that have succeeded
Decided(p) ==
    { n \in DOMAIN sessionCalls :
        /\ sessionCalls[n].op \in {"approve", "reject"}
        /\ sessionCalls[n].id = p
        /\ sessionCalls[n].outcome = "succeeded" }

\* C19: a reject that succeeds has sent rejectSession with code 4001 for the
\* proposal's id and clears the current proposal; an approve that succeeds
\* has sent approveSession for the proposal's id, whose session the pairing
\* layer then holds, and clears the current proposal; at most one decision
\* succeeds per proposal and none is sent for it afterwards; a decision that
\* fails leaves the current proposal as it is.
C19_ProposalDecidedOnce ==
    /\ [](\A p \in ProposalIds : Cardinality(Decided(p)) <= 1)
    /\ [][/\ \A n \in DOMAIN sessionCalls :
               LET p == sessionCalls[n].id
               IN /\ SettlesAs(n, {"reject"}, "succeeded") =>
                        /\ \E k \in DOMAIN kitLog :
                              /\ kitLog[k].what = "rejectSession"
                              /\ kitLog[k].id = p
                              /\ kitLog[k].code = 4001
                        /\ \A k \in DOMAIN kitLog :
                              (kitLog[k].what = "rejectSession" /\ kitLog[k].id = p)
                                  => kitLog[k].code = 4001
                        /\ currentSessionProposal' = 0
                  /\ SettlesAs(n, {"approve"}, "succeeded") =>
                        /\ \E k \in DOMAIN kitLog :
                              kitLog[k].what = "approveSession" /\ kitLog[k].id = p
                        /\ \E s \in kitSessions' : s.topic = p
                        /\ currentSessionProposal' = 0
                  /\ SettlesAs(n, {"approve", "reject"}, "caught") =>
                        currentSessionProposal' = currentSessionProposal
          /\ Len(kitLog') > Len(kitLog) =>
               LET c == kitLog'[Len(kitLog')]
               IN c.what \in {"approveSession", "rejectSession"} =>
                      /\ c.id = currentSessionProposal
                      /\ Decided(c.id) = {}]_vars

\* C19 witness: one proposal was approved, another rejected, and a further
\* decision on one of them failed
C19_Witness ==
    /\ \E n \in DOMAIN sessionCalls :
           sessionCalls[n].op = "approve" /\ sessionCalls[n].outcome = "succeeded"
    /\ \E n \in DOMAIN sessionCalls :
           sessionCalls[n].op = "reject" /\ sessionCalls[n].outcome = "succeeded"
    /\ \E n \in DOMAIN sessionCalls :
           /\ sessionCalls[n].op \in {"approve", "reject"}
           /\ sessionCalls[n].outcome = "caught"
           /\ Decided(sessionCalls[n].id) # {}

(***************************************************************************)
(* A further claim about the session bridge (checked under SpecBridge).    *)
(***************************************************************************)
\* invocation inv of handleSessionRequest is still suspended at an await
Running(inv) == \E f \in Flows : flows[f].pc # "idle" /\ flows[f].inv = inv

\* C20 (as claimed): once the handling of an approved
\* wallet_switchEthereumChain request that names a chain has ended, either the switch to the
\* requested chain was made and the request was answered with result null, or
\* it was answered with an error; and isSwitchingChain is false when no switch
\* is in progress.
C20_SwitchRequestAnswered ==
    /\ \A i \in DOMAIN log :
          (/\ IsInvoke(log[i], "approve", "run")
           /\ RequestOf(log[i]).method = "wallet_switchEthereumChain"
           /\ RequestOf(log[i]).arg = "object"
           /\ ~Running(log[i].inv)) =>
              \/ /\ \E j \in SameInvocation(log[i]) :
                        /\ log[j].kind = "switch"
                        /\ log[j].what = "ok"
                        /\ log[j].chain = RequestOf(log[i]).switchTo
                 /\ \E j \in SameInvocation(log[i]) :
                        /\ log[j].kind = "respond"
                        /\ log[j].what = "result"
                        /\ log[j].arg = "null"
              \/ \E j \in SameInvocation(log[i]) :
                     log[j].kind = "respond" /\ log[j].what = "error"
    /\ ((\A f \in Flows : flows[f].pc # "switch") /\ chainSwitch.pc = "idle")
          => ~isSwitchingChain

\* the events this step appends to the log
Appended == { k \in DOMAIN log' : k > Len(log) }

\* C21 (as claimed): with a wallet client bound, a reject of the current
\* request made while nothing is executing (as closing the modal then does)
\* sends a 4001 rejection for it; and closing the modal while the request is
\* mid-execution (pendingRequest or isSwitchingChain) sends no rejection in
\* that step: the rejection waits until the execution has settled.
C21_CloseDefersRejection ==
    [][/\ (/\ isSessionRequestOpen
           /\ HandlerGuard
           /\ ~pendingRequest /\ ~isSwitchingChain
           /\ \E k \in Appended : IsInvoke(log'[k], "reject", "run")) =>
              \E k \in Appended :
                  /\ log'[k].kind = "respond"
                  /\ log'[k].what = "error"
                  /\ log'[k].code = 4001
                  /\ log'[k].id = currentSessionRequest.id
       /\ (/\ isSessionRequestOpen /\ ~isSessionRequestOpen'
           /\ currentSessionRequest # NoRequest
           /\ currentSessionRequest' = NoRequest
           /\ (pendingRequest \/ isSwitchingChain)
           /\ \E f \in Flows : flows[f].pc \in {"capability", "switch"}
                                 /\ flows[f].req.id = currentSessionRequest.id) =>
              \A k \in Appended : log'[k].kind # "respond"]_vars

(***************************************************************************)
(* Further claims about the connector (checked under SpecConnector).       *)
(***************************************************************************)
\* C22 (as claimed): when disconnect() is called while a connect is suspended
\* at an await and that connect then settles on its success path, the
\* connector stays disconnected.
C22_DisconnectHonoured ==
    [][\A t \in DOMAIN tasks :
          (/\ lastCall.op = "disconnect"
           /\ tasks[t].op = "connect"
           /\ Ends(t)
           /\ ~EndsByFailure(t)) => connected' = FALSE]_vars

(***************************************************************************)
(* Rebinding while a request runs (checked under SpecRebinding).           *)
(***************************************************************************)
\* C23 (as claimed): while a request() call of the provider is in flight, no
\* step assigns the connector's walletClient.
C23_NoRebindWhileExecuting ==
    [][(\E i \in Rpcs : rpcs[i].pc # "done") => walletClient' = walletClient]_vars

(***************************************************************************)
(* The user-operation flow, step by step (checked under SpecRequest).      *)
(***************************************************************************)
\* the position of the one effect of kind w made for request i (0 when none)
PositionOf(i, w) ==
    IF EffectsOfKind(i, {w}) = {} THEN 0
    ELSE CHOOSE k \in EffectsOfKind(i, {w}) : TRUE

\* C24: within one eth_sendTransaction call of the user-operation flow the
\* steps occur in the order prepare, sign, submit, wait for inclusion, return:
\* each step is issued only after the step before it, the submission only once
\* the signature has been obtained, and the call returns its hash only from
\* the inclusion wait for the hash its own submission produced.
C24_StepsInOrder ==
    /\ [](\A i \in DOMAIN rpcs :
            Route(provider.unit, rpcs[i].method) = "userOperation" =>
                /\ \A w \in UserOperationFlow : Cardinality(EffectsOfKind(i, {w})) <= 1
                /\ PositionOf(i, "signUserOperation") # 0 =>
                      /\ PositionOf(i, "prepareUserOperation") # 0
                      /\ PositionOf(i, "prepareUserOperation") < PositionOf(i, "signUserOperation")
                /\ PositionOf(i, "handleOps") # 0 =>
                      /\ PositionOf(i, "signUserOperation") # 0
                      /\ PositionOf(i, "signUserOperation") < PositionOf(i, "handleOps")
                      /\ rpcs[i].signature # 0
                /\ PositionOf(i, "waitForTransactionReceipt") # 0 =>
                      /\ PositionOf(i, "handleOps") # 0
                      /\ PositionOf(i, "handleOps") < PositionOf(i, "waitForTransactionReceipt")
                /\ rpcs[i].outcome = "returned" =>
                      /\ PositionOf(i, "waitForTransactionReceipt") # 0
                      /\ rpcs[i].result = "hash"
                      /\ rpcs[i].of = i)
    /\ [][\A i \in DOMAIN rpcs :
            (/\ Route(provider.unit, rpcs[i].method) = "userOperation"
             /\ rpcs[i].outcome # "returned"
             /\ rpcs'[i].outcome = "returned") =>
                /\ rpcs[i].pc = "wait"
                /\ rpcs'[i].of = rpcs[i].of
                /\ effects' = effects]_vars

\* C24 witness: a call of the user-operation flow has gone through its four
\* steps and returned
C24_Witness ==
    \E i \in DOMAIN rpcs :
        /\ Route(provider.unit, rpcs[i].method) = "userOperation"
        /\ rpcs[i].outcome = "returned"
        /\ \A w \in UserOperationFlow : PositionOf(i, w) # 0

\* C25: every user-operation submission is a call by the owner's signing
\* client (not the smart account's) to the entry point's handleOps, with a
\* batch of exactly one operation that carries the signature and an empty
\* initCode, and with the owner's address as beneficiary.
C25_OwnerSubmitsBatchOfOne ==
    \A k \in DOMAIN effects :
        effects[k].what = "handleOps" =>
            LET c == effects[k].call
            IN /\ c.client = "ownerWalletClient"
               /\ c.address = "entryPoint06Address"
               /\ c.functionName = "handleOps"
               /\ Len(c.batch) = 1
               /\ c.batch[1].signature = rpcs[effects[k].rpc].signature
               /\ c.batch[1].signature # 0
               /\ c.batch[1].initCode = "0x"
               /\ c.batch[1].id = effects[k].rpc
               /\ c.beneficiary = OwnerAddress
               /\ c.beneficiary # provider.address

\* C25 witness: a submission has been made and has settled
C25_Witness ==
    \E k \in DOMAIN effects :
        /\ effects[k].what = "handleOps"
        /\ rpcs[effects[k].rpc].pc \in {"wait", "done"}
        /\ rpcs[effects[k].rpc].of # 0

(***************************************************************************)
(* Answering a session request once (checked under SpecBridge).            *)
(***************************************************************************)
\* C26 (as claimed): when handleSessionRequest has sent its success response
\* or its rejection and returns, the current session request is cleared.
C26_AnsweredRequestCleared ==
    [][\A f \in Flows :
          (/\ flows[f].pc = "respond"
           /\ flows'[f].pc = "idle"
           /\ \A k \in Appended : log'[k].kind # "caught") =>
              currentSessionRequest' = NoRequest]_vars

\* C28 (as claimed): each session request id receives at most one response:
\* never a success and a 4001 rejection, and never the same response twice.
C28_AtMostOneResponse ==
    \A j, k \in DOMAIN log :
        (/\ log[j].kind = "respond"
         /\ log[k].kind = "respond"
         /\ log[j].id = log[k].id) => j = k

(***************************************************************************)
(* The message of a failure (checked under SpecExtract).                   *)
(***************************************************************************)
\* C27 (as claimed): for every error value the message is the first available
\* of the error's short message, its raw message, its data's message, its
\* data's error name, and finally the string form of the whole error.
C27_FirstAvailableOfError ==
    errorMessage # NotExtracted =>
        LET e == caught.chain[1]
        IN errorMessage =
              IF e.shortMessage # NoText THEN e.shortMessage
              ELSE IF e.message # NoText THEN e.message
              ELSE IF e.data.message # NoText THEN e.data.message
              ELSE IF e.data.errorName # NoText THEN e.data.errorName
              ELSE StringOf(e)

\* C27 (amended): for an error with a walk method the message comes from the
\* first error of its cause chain that is a ContractFunctionRevertedError or
\* has a short or raw message: the first available of that error's short
\* message, raw message, data message, data error name and its own string
\* form, with a leading "Error:" or "ContractFunctionRevertedError:" removed.
\* For an error without a walk method, when the chain has no such error, and
\* when walk throws, the message is the string form of the whole error.
C27_MessageOfSelectedError ==
    errorMessage # NotExtracted =>
        LET chain == caught.chain
            selected == { k \in DOMAIN chain :
                            /\ WalkPredicate(chain[k])
                            /\ \A j \in DOMAIN chain : j < k => ~WalkPredicate(chain[j]) }
        IN IF caught.walk # "method" \/ selected = {}
           THEN errorMessage = StringOf(chain[1])
           ELSE \A k \in selected :
                   LET l == chain[k]
                       first == IF l.shortMessage # NoText THEN l.shortMessage
                                ELSE IF l.message # NoText THEN l.message
                                ELSE IF l.data.message # NoText THEN l.data.message
                                ELSE IF l.data.errorName # NoText THEN l.data.errorName
                                ELSE StringOf(l)
                   IN errorMessage =
                         IF first # NoText /\ first[1] \in {"Error:", "ContractFunctionRevertedError:"}
                         THEN SubSeq(first, 2, Len(first))
                         ELSE first

\* C27 witness: the message was taken from a cause below the outermost error,
\* which had a short and a raw message
C27_Witness ==
    /\ errorMessage = <<"short">>
    /\ caught.walk = "method"
    /\ Len(caught.chain) = 2
    /\ ~WalkPredicate(caught.chain[1])
    /\ caught.chain[2].message = <<"Error:", "raw">>

(***************************************************************************)
(* Failed calls and the binding (checked under SpecConnector).             *)
(***************************************************************************)
\* C29 (as claimed): a switchChain or connect that fails because its chain id
\* is not configured leaves the bound wallet as it was: with a wallet bound,
\* no step of such a call changes what getChainId() returns.
C29_FailedCallKeepsBinding ==
    [][\A t \in DOMAIN tasks :
          (/\ tasks[t].op \in {"connect", "switchChain"}
           /\ tasks[t].chainId # 0
           /\ FindChain(tasks[t].chainId) = 0
           /\ tasks'[t] # tasks[t]
           /\ GetChainIdOutcome.outcome = "returned") =>
              /\ walletClient' = walletClient
              /\ GetChainIdOutcome' = GetChainIdOutcome]_vars

(***************************************************************************)
(* A provider and the chain it was built for (checked under SpecRequest).  *)
(***************************************************************************)
\* C30 (as claimed): the typed-data-signing and passthrough requests made
\* through a provider use the wallet of the chain the provider was built for,
\* also after a later getProvider has bound another chain.
C30_ProviderKeepsItsChain ==
    \A k \in DOMAIN effects :
        effects[k].what \in {"signTypedData", "walletRequest"} =>
            effects[k].chain = provider.chain

(***************************************************************************)
(* Advertised methods and the dispatcher (checked under SpecBridge).       *)
(***************************************************************************)
\* the chain-switch effect can require a switch for requests of method m
CanRequireChainSwitch(m) ==
    \E r \in RequestsWithId(1) : \E cid \in walletChains :
        r.method = m /\ RequiresChainSwitch(r, cid)

\* C31 (as claimed): an approved request for a method the bridge advertises is
\* never answered with the placeholder "0x" of the unrecognized branch, and an
\* approved request for a method that can require a chain switch is answered
\* with a result only after a wallet capability was called for it.
C31_AdvertisedMethodsServiced ==
    \A i, k \in DOMAIN log :
        (/\ IsInvoke(log[i], "approve", "run")
         /\ log[k].kind = "respond"
         /\ log[k].what = "result"
         /\ log[k].inv = log[i].inv) =>
            /\ RequestOf(log[i]).method \in SupportedMethods => log[k].arg # "0x"
            /\ CanRequireChainSwitch(RequestOf(log[i]).method) =>
                  \E j \in DOMAIN log :
                      /\ i < j /\ j < k
                      /\ log[j].kind = "wallet"
                      /\ log[j].inv = log[i].inv

====
